---- MODULE Spec2Model ----
(***************************************************************************)
(* lookap-chat: the revisions of the serverless chat handler.              *)
(*                                                                         *)
(* A JavaScript string is a sequence of atoms; an atom is a TLA+ string    *)
(* holding one character, or a literal fragment of a message template that *)
(* no operation of the program looks into.  Column and dataset names are   *)
(* TLA+ strings; they become one-atom strings when interpolated.           *)
(***************************************************************************)
EXTENDS Integers, Sequences, FiniteSets, TLC

VARIABLES
  entry,      \* what is being run: "handler", or a function called directly
  rev,        \* the revision (source file and handler) that is running
  env,        \* process.env: which configuration values are set
  body,       \* req.body
  pc,         \* where the handler's pipeline is suspended
  um,         \* userMessage after trimming
  analysis,   \* the classification result the handler holds
  sd,         \* the dataset search in progress (blob client, parser, promise)
  resp,       \* the response of the request (status 0: none yet)
  timer,      \* the setTimeout of the racing handler: "none", "armed", "fired"
  calls,      \* outbound calls issued so far, by kind
  llmIn,      \* the reply the classification call produced
  chatIn,     \* the reply the fallback chat call produced
  fn,         \* the direct call of a pure function: its inputs and output
  blobIn,     \* the reply blobClient.exists() produced
  now,        \* milliseconds since the handler was called
  reqs,       \* two requests in one process: the state of each invocation
  tmp         \* the file /tmp/purchaseRecords.csv: its content, or absent

vars == <<entry, rev, env, body, pc, um, analysis, sd, resp, timer, calls,
          llmIn, chatIn, fn, blobIn, now, reqs, tmp>>

--------------------------------------------------------------------------
(* Bounds *)

\* the longest CSV document, in data rows
MaxRows == 2
\* the longest list of requested columns
MaxCols == 2
\* the clock stops counting here
MaxClock == 8001

--------------------------------------------------------------------------
(* Strings *)

Str(a) == <<a>>

\* the letters, small and capital, in the same order
SmallLetters ==
  <<"a", "b", "c", "d", "e", "f", "g", "h", "i", "j", "k", "l", "m", "n",
    "o", "p", "q", "r", "s", "t", "u", "v", "w", "x", "y", "z">>
CapitalLetters ==
  <<"A", "B", "C", "D", "E", "F", "G", "H", "I", "J", "K", "L", "M", "N",
    "O", "P", "Q", "R", "S", "T", "U", "V", "W", "X", "Y", "Z">>

\* String.prototype.toLowerCase on one character: a capital letter becomes
\* its small letter, every other character stays
LowerChar(c) ==
  IF \E i \in DOMAIN CapitalLetters : CapitalLetters[i] = c
  THEN SmallLetters[CHOOSE i \in DOMAIN CapitalLetters : CapitalLetters[i] = c]
  ELSE c

toLowerCase(s) == [i \in 1..Len(s) |-> LowerChar(s[i])]

\* String.prototype.includes
includes(s, t) ==
  \E i \in 0..(Len(s) - Len(t)) : SubSeq(s, i + 1, i + Len(t)) = t

RECURSIVE TrimLeft(_)
TrimLeft(s) ==
  IF s # <<>> /\ Head(s) = " " THEN TrimLeft(Tail(s)) ELSE s

RECURSIVE TrimRight(_)
TrimRight(s) ==
  IF s # <<>> /\ s[Len(s)] = " " THEN TrimRight(SubSeq(s, 1, Len(s) - 1)) ELSE s

\* String.prototype.trim
trim(s) == TrimRight(TrimLeft(s))

\* Array.prototype.join("\n") over strings
RECURSIVE JoinLines(_)
JoinLines(ss) ==
  IF ss = <<>> THEN <<>>
  ELSE IF Len(ss) = 1 THEN ss[1]
  ELSE ss[1] \o <<"\n">> \o JoinLines(Tail(ss))

\* Number to string, for the list numbering
Digits(n) == Str(ToString(n))

Range(f) == {f[i] : i \in DOMAIN f}

SeqsUpTo(S, n) == UNION {[1..k -> S] : k \in 0..n}

--------------------------------------------------------------------------
(* The data the handlers run on *)

\* CSV header lines of the blob store's datasets
HeadersA == <<"sku_id", "item_description", "soh">>
HeadersB == <<"item_description", "vendorName">>

\* Object.keys order of a parsed row: the order of its header line
KeyOrder == <<"sku_id", "item_description", "soh", "vendorName",
              "matchedColumn", "matchedValue">>

S10271 == <<"1", "0", "2", "7", "1">>
S9027 == <<"9", "0", "2", "7">>
SPump == <<"P", "u", "m", "p">>
Spump == <<"p", "u", "m", "p">>
SPUMP == <<"P", "U", "M", "P">>
S027 == <<"0", "2", "7">>
SSeal == <<"s", "e", "a", "l">>

\* parsed data rows (fast-csv, headers: true, trim: true): column -> cell
RowPoolA ==
  { [sku_id |-> S10271, item_description |-> SPump, soh |-> <<"5">>],
    [sku_id |-> S9027, item_description |-> Spump, soh |-> <<>>],
    [sku_id |-> <<>>, item_description |-> SSeal, soh |-> <<"0">>] }

RowPoolB ==
  { [item_description |-> SPUMP, vendorName |-> <<"A", "c", "m", "e">>],
    [item_description |-> SSeal, vendorName |-> <<>>] }

\* no file of that name
NoFile == <<"ENOENT">>

\* a blob with no content
EmptyDoc == [headers |-> <<>>, rows |-> <<>>]

\* the contents a dataset blob can have
Docs ==
  {EmptyDoc}
  \cup {[headers |-> HeadersA, rows |-> rs] : rs \in SeqsUpTo(RowPoolA, MaxRows)}
  \cup {[headers |-> HeadersB, rows |-> rs] : rs \in SeqsUpTo(RowPoolB, MaxRows)}

\* search values a classification can carry (<<>>: absent, null or "")
Values == {S027, SPUMP, SSeal}

\* datasets the analysis prompt of part_003 lists (three of its names)
KnownDatasets == {"warehouseData.csv", "materialBasicData.csv", "purchaseRecords.csv"}

\* row[c] where undefined and "" are not told apart (both are falsy)
Get(row, c) == IF c \in DOMAIN row THEN row[c] ELSE <<>>

\* a || b on strings
OrElse(a, b) == IF a # <<>> THEN a ELSE b

\* Object.keys(row)[0] ("": undefined)
FirstKey(row) ==
  LET idx == {i \in DOMAIN KeyOrder : KeyOrder[i] \in DOMAIN row}
  IN IF idx = {} THEN ""
     ELSE KeyOrder[CHOOSE i \in idx : \A j \in idx : i <= j]

--------------------------------------------------------------------------
(* src/unnamed/part_000: ResponseFormatter *)

noResultsResponse(value) ==
  <<"No records found for '">> \o value
    \o <<"'. Would you like to try a different search?">>

singleResultResponse(row, primaryColumn) ==
  Str(IF primaryColumn = "" THEN "undefined" ELSE primaryColumn) \o <<": ">>
    \o OrElse(Get(row, primaryColumn), <<"N/A">>)

\* a list numbered with the array index instead of index + 1
multiResultResponse_fromZero(results, columns) ==
  LET primaryColumn ==
        IF Len(columns) > 0 THEN columns[1]
        ELSE IF FirstKey(results[1]) # "" THEN FirstKey(results[1]) ELSE "Unknown"
      line(i) ==
        Digits(i - 1) \o <<". SKU ">> \o OrElse(Get(results[i], "sku_id"), <<"N/A">>)
          \o <<" - ">> \o OrElse(Get(results[i], primaryColumn), <<"Unknown">>)
  IN JoinLines([i \in 1..Len(results) |-> line(i)])
       \o <<"\nPlease specify which item you need details for.">>

multiResultResponse(results, columns) ==
  LET primaryColumn ==
        IF Len(columns) > 0 THEN columns[1]
        ELSE IF FirstKey(results[1]) # "" THEN FirstKey(results[1]) ELSE "Unknown"
      line(i) ==
        Digits(i) \o <<". SKU ">> \o OrElse(Get(results[i], "sku_id"), <<"N/A">>)
          \o <<" - ">> \o OrElse(Get(results[i], primaryColumn), <<"Unknown">>)
  IN JoinLines([i \in 1..Len(results) |-> line(i)])
       \o <<"\nPlease specify which item you need details for.">>

resultsResponse(results, columns) ==
  IF Len(results) > 1 THEN multiResultResponse(results, columns)
  ELSE singleResultResponse(results[1],
         IF Len(columns) > 0 THEN columns[1] ELSE FirstKey(results[1]))

format(results, columns, value) ==
  IF Len(results) = 0 THEN noResultsResponse(value)
  ELSE resultsResponse(results, columns)

--------------------------------------------------------------------------
(* src/unnamed/part_000: BlobDataService.processRow *)

\* forEach over the columns; the return inside the callback ends only that
\* callback, so every column is visited
RECURSIVE processRow(_, _, _, _)
processRow(normalizedRow, validColumns, searchValue, results) ==
  IF validColumns = <<>> THEN results
  ELSE
    LET col == Head(validColumns)
        searchTerm == toLowerCase(searchValue)
        cellValue == toLowerCase(Get(normalizedRow, col))
        hit == ("matchedColumn" :> Str(col)) @@ ("matchedValue" :> cellValue)
                 @@ normalizedRow
    IN processRow(normalizedRow, Tail(validColumns), searchValue,
                  IF includes(cellValue, searchTerm) THEN Append(results, hit)
                  ELSE results)

--------------------------------------------------------------------------
(* Requests, configuration, replies of the external services *)

\* req.body: absent, or an object whose userMessage is undefined, null or a string
Bodies ==
  { [has |-> FALSE, um |-> "undefined", text |-> <<>>],
    [has |-> TRUE, um |-> "undefined", text |-> <<>>],
    [has |-> TRUE, um |-> "null", text |-> <<>>],
    [has |-> TRUE, um |-> "string", text |-> <<>>],
    [has |-> TRUE, um |-> "string", text |-> <<" ">>],
    [has |-> TRUE, um |-> "string", text |-> <<"s", "k", "u", " ">> \o S10271] }

\* process.env: is OPENAI_API_KEY set, is AZURE_STORAGE_CONNECTION_STRING set
Envs == [key : BOOLEAN, conn : BOOLEAN]

\* column names as the LLM writes them
RawCols == {"soh", " sku_id", "", "vendorName"}

\* an entry of the columns array that is a number, not a string
NonString == "<number>"

\* c.trim() on a column name
trimName(c) == IF c = " sku_id" THEN "sku_id" ELSE c

\* the reply of the classification call: the call rejects, the response has
\* no choices, its content is free text, or its content is a JSON object
NoReply ==
  [kind |-> "none", dataset |-> "", isArray |-> FALSE, columns |-> <<>>,
   column |-> "", value |-> <<>>, confidence |-> 0]

\* {"dataset": .., "columns": [..], "value": .., "confidence": ..}
JsonReplies ==
  { [kind |-> "json", dataset |-> d, isArray |-> TRUE, columns |-> cs,
     column |-> "", value |-> v, confidence |-> c] :
      d \in {"", "warehouseData.csv", "unknown.csv"},
      cs \in SeqsUpTo(RawCols, MaxCols),
      v \in Values \cup {<<>>},
      c \in {1, 9} }
  \cup
  { [kind |-> "json", dataset |-> "warehouseData.csv", isArray |-> FALSE,
     columns |-> <<>>, column |-> "", value |-> S027, confidence |-> 9] }
  \cup
  { [kind |-> "json", dataset |-> "warehouseData.csv", isArray |-> TRUE,
     columns |-> cs, column |-> "", value |-> S027, confidence |-> 9] :
      cs \in {<<NonString>>, <<"soh", NonString>>} }

\* {"dataset": .., "column": .., "value": ..}
JsonColumnReplies ==
  { [kind |-> "json", dataset |-> d, isArray |-> FALSE, columns |-> <<>>,
     column |-> c, value |-> v, confidence |-> 0] :
      d \in {"", "warehouseData.csv", "unknown.csv"},
      c \in {"", "soh", "item_description", "vendorName"},
      v \in Values \cup {<<>>} }

FailedReplies ==
  { [NoReply EXCEPT !.kind = k] : k \in {"reject", "nochoices", "text"} }

\* the reply of the plain chat completion: rejects, no choices, or content
ChatReplies ==
  { [kind |-> "reject", content |-> <<>>],
    [kind |-> "nochoices", content |-> <<>>],
    [kind |-> "content", content |-> <<>>],
    [kind |-> "content", content |-> <<"Hello! How can I help?">>] }

NoChat == [kind |-> "none", content |-> <<>>]

\* the outcome of blobClient.exists()
ExistsReplies == {"true", "false", "reject"}

\* a response: { status, body: { <key>: text, details } }; status 0: none
Resp(status, key, text, details) ==
  [status |-> status, key |-> key, text |-> text, details |-> details]

NoResp == Resp(0, "", <<>>, <<>>)

\* the result of a call that returns val or throws err
Ok(v) == [ok |-> TRUE, val |-> v, err |-> <<>>]

NoAnalysis ==
  [isValid |-> FALSE, dataset |-> "", columns |-> <<>>, value |-> <<>>,
   fallback |-> <<>>]

Throw(e) == [ok |-> FALSE, val |-> NoAnalysis, err |-> e]

\* Array.prototype.filter(Boolean) on column names
RECURSIVE filterBoolean(_)
filterBoolean(cs) ==
  IF cs = <<>> THEN <<>>
  ELSE IF Head(cs) # "" THEN <<Head(cs)>> \o filterBoolean(Tail(cs))
  ELSE filterBoolean(Tail(cs))

--------------------------------------------------------------------------
(* src/unnamed/part_000: AIDataService *)

\* a parser that does not require a column
parseOpenAIResponse_anyColumns(response) ==
  IF response.kind # "json" \/ NonString \in Range(response.columns)
  THEN [NoAnalysis EXCEPT
          !.fallback = <<"I'm having trouble processing your request. Please try again.">>]
  ELSE [isValid |-> response.dataset # "" /\ response.value # <<>>,
        dataset |-> response.dataset,
        columns |-> filterBoolean([i \in 1..Len(response.columns) |->
                                     trimName(response.columns[i])]),
        value |-> response.value,
        fallback |-> <<"I'm not sure about that query. Could you clarify?">>]

\* the catch branch of parseOpenAIResponse and the happy path; nothing of the
\* reply's confidence is read.  The catch is reached by a response without
\* choices, by content that is not JSON, and by c.trim() on an entry of the
\* columns array that is not a string
parseOpenAIResponse(response) ==
  IF response.kind # "json"
       \/ (response.isArray /\ NonString \in Range(response.columns))
  THEN [NoAnalysis EXCEPT
          !.fallback = <<"I'm having trouble processing your request. Please try again.">>]
  ELSE
    LET columns ==
          IF response.isArray
          THEN filterBoolean([i \in 1..Len(response.columns) |->
                                trimName(response.columns[i])])
          ELSE <<>>
    IN [isValid |-> response.dataset # "" /\ Len(columns) > 0 /\ response.value # <<>>,
        dataset |-> response.dataset,
        columns |-> columns,
        value |-> response.value,
        fallback |-> <<"I'm not sure about that query. Could you clarify?">>]

\* handleAnalysisError reads userMessage, which is not in its scope
handleAnalysisError ==
  Throw(<<"userMessage is not defined">>)

analyzeQuery(reply) ==
  IF reply.kind = "reject" THEN handleAnalysisError
  ELSE Ok(parseOpenAIResponse(reply))

--------------------------------------------------------------------------
(* The dataset search in progress *)

NoSd ==
  [filename |-> "", columns |-> <<>>, value |-> <<>>, doc |-> EmptyDoc,
   phase |-> "none", row |-> 1, results |-> <<>>, promise |-> "none",
   err |-> <<>>, compared |-> 0, headersChecked |-> FALSE]

\* the call of the search: the blob client is built and exists() is awaited
StartSd(filename, columns, value) ==
  [NoSd EXCEPT !.filename = filename, !.columns = columns, !.value = value,
               !.phase = "exists"]

\* reject(e) / a throw inside the async function: only a pending or not yet
\* created promise changes
RejectSd(s, e) ==
  IF s.promise \in {"none", "pending"}
  THEN [s EXCEPT !.promise = "rejected", !.err = e]
  ELSE s

\* resolve(results)
ResolveSd(s) ==
  IF s.promise \in {"none", "pending"} THEN [s EXCEPT !.promise = "resolved"] ELSE s

\* the catch of the function-based searchDataset: throw new Error(...)
wrapError(filename, e) ==
  <<"Error processing dataset ", filename, ": ">> \o e

--------------------------------------------------------------------------
(* src/unnamed/part_000: BlobDataService *)

\* a queryDataset that goes on to the download whatever exists() answers
queryDataset_exists_noCheck(s, reply) ==
  IF reply # "reject" THEN [s EXCEPT !.phase = "download"]
  ELSE [RejectSd(s, <<"blob service unavailable">>) EXCEPT !.phase = "end"]

\* queryDataset after exists(): a missing blob throws, and the catch rethrows
queryDataset_exists(s, reply) ==
  IF reply = "true" THEN [s EXCEPT !.phase = "download"]
  ELSE [RejectSd(s, IF reply = "false"
                     THEN <<"Dataset ", s.filename, " not found">>
                     ELSE <<"blob service unavailable">>)
          EXCEPT !.phase = "end"]

\* processCSVData: the parser is created on the stream
queryDataset_download(s, ok, doc) ==
  IF ok THEN [s EXCEPT !.doc = doc, !.phase = "headers", !.promise = "pending"]
  ELSE [RejectSd(s, <<"download failed">>) EXCEPT !.phase = "end"]

\* the parser reads the stream: with no line it ends and the promise resolves
\* with the empty list; on the first line it calls the headers option, which
\* calls this.normalizeHeaders, a method the class does not have
processCSVData(s) ==
  IF s.doc = EmptyDoc THEN [ResolveSd(s) EXCEPT !.phase = "end"]
  ELSE [RejectSd(s, <<"this.normalizeHeaders is not a function">>)
          EXCEPT !.phase = "end"]

\* validateColumns: throws when no requested column is a header
validateColumns(normalizedHeaders, targetColumns) ==
  \E i \in DOMAIN targetColumns : targetColumns[i] \in Range(normalizedHeaders)

--------------------------------------------------------------------------
(* src/unnamed/part_003, first revision (lines 1-370) *)

\* analyzeUserQuery up to the prompt: without an API key the canned result;
\* with one, the prompt expression reads the unbound name `response` (the
\* backticks around <response> end the template literal) and throws
analyzeUserQuery_003a(e) ==
  IF ~e.key
  THEN Ok([NoAnalysis EXCEPT !.fallback = <<"Configuration error: API key is missing.">>])
  ELSE Throw(<<"response is not defined">>)

\* a character as the flag i compares it
FoldChar(c) ==
  IF \E i \in DOMAIN CapitalLetters : CapitalLetters[i] = c
  THEN SmallLetters[CHOOSE i \in DOMAIN CapitalLetters : CapitalLetters[i] = c]
  ELSE c

Fold(s) == [i \in 1..Len(s) |-> FoldChar(s[i])]

\* \s and \w on the characters of a reply
SpaceChars == {" ", "\n"}
WordChars ==
  Range(SmallLetters) \cup Range(CapitalLetters)
    \cup {"0", "1", "2", "3", "4", "5", "6", "7", "8", "9", "_"}

\* the longest prefix of s made of characters of S (a greedy class+)
RECURSIVE TakeWhileIn(_, _)
TakeWhileIn(s, S) ==
  IF s # <<>> /\ Head(s) \in S THEN <<Head(s)>> \o TakeWhileIn(Tail(s), S)
  ELSE <<>>

Drop(s, n) == SubSeq(s, n + 1, Len(s))

\* the literal lit (in small letters) at the head of s, under the flag i
StartsWithI(s, lit) ==
  Len(s) >= Len(lit) /\ Fold(SubSeq(s, 1, Len(lit))) = lit

\* /Dataset:\s*([\w.]+\.csv)/i matched at the head of s: group 1 (<<>>: no
\* match); the greedy [\w.]+ gives back characters up to the last ".csv"
datasetAt(s) ==
  IF ~StartsWithI(s, <<"d", "a", "t", "a", "s", "e", "t", ":">>) THEN <<>>
  ELSE
    LET rest == Drop(s, Len(<<"d", "a", "t", "a", "s", "e", "t", ":">>))
        run == TakeWhileIn(Drop(rest, Len(TakeWhileIn(rest, SpaceChars))),
                           WordChars \cup {"."})
        ext == <<".", "c", "s", "v">>
        ends == {n \in (Len(ext) + 1)..Len(run) :
                   Fold(SubSeq(run, n - Len(ext) + 1, n)) = ext}
    IN IF ends = {} THEN <<>>
       ELSE SubSeq(run, 1, CHOOSE n \in ends : \A m \in ends : m <= n)

\* /Columns?:\s*\[?([\w,\s-]+)\]?/i matched at the head of s: group 1; when
\* no character of the class follows the blanks and the bracket, \s* gives
\* back its last blank to the group
columnsAt(s) ==
  IF ~StartsWithI(s, <<"c", "o", "l", "u", "m", "n">>) THEN <<>>
  ELSE
    LET a == Drop(s, Len(<<"c", "o", "l", "u", "m", "n">>))
        b == IF a # <<>> /\ FoldChar(Head(a)) = "s" THEN Tail(a) ELSE a
        class == WordChars \cup SpaceChars \cup {",", "-"}
    IN IF b = <<>> \/ Head(b) # ":" THEN <<>>
       ELSE
         LET sp == TakeWhileIn(Tail(b), SpaceChars)
             rest == Drop(Tail(b), Len(sp))
         IN IF rest # <<>> /\ Head(rest) = "[" /\ TakeWhileIn(Tail(rest), class) # <<>>
            THEN TakeWhileIn(Tail(rest), class)
            ELSE IF TakeWhileIn(rest, class) # <<>> THEN TakeWhileIn(rest, class)
            ELSE IF sp # <<>> THEN <<sp[Len(sp)]>>
            ELSE <<>>

\* /Value:\s*([\w\d]+)/i matched at the head of s: group 1
valueAt(s) ==
  IF ~StartsWithI(s, <<"v", "a", "l", "u", "e", ":">>) THEN <<>>
  ELSE
    LET rest == Drop(s, Len(<<"v", "a", "l", "u", "e", ":">>))
    IN TakeWhileIn(Drop(rest, Len(TakeWhileIn(rest, SpaceChars))), WordChars)

\* responseText.match(...): group 1 of the leftmost match (<<>>: null)
datasetMatch(s) ==
  LET hits == {i \in DOMAIN s : datasetAt(Drop(s, i - 1)) # <<>>}
  IN IF hits = {} THEN <<>>
     ELSE datasetAt(Drop(s, (CHOOSE i \in hits : \A j \in hits : i <= j) - 1))

columnsMatch(s) ==
  LET hits == {i \in DOMAIN s : columnsAt(Drop(s, i - 1)) # <<>>}
  IN IF hits = {} THEN <<>>
     ELSE columnsAt(Drop(s, (CHOOSE i \in hits : \A j \in hits : i <= j) - 1))

valueMatch(s) ==
  LET hits == {i \in DOMAIN s : valueAt(Drop(s, i - 1)) # <<>>}
  IN IF hits = {} THEN <<>>
     ELSE valueAt(Drop(s, (CHOOSE i \in hits : \A j \in hits : i <= j) - 1))

\* String.prototype.split(",")
RECURSIVE splitComma(_)
splitComma(s) ==
  LET head == TakeWhileIn(s, (WordChars \cup SpaceChars \cup {"-"})) IN
  IF Len(head) = Len(s) THEN <<s>>
  ELSE <<head>> \o splitComma(Drop(s, Len(head) + 1))

\* String.prototype.trim on a piece of the columns group
RECURSIVE trimBlanks(_)
trimBlanks(s) ==
  IF s # <<>> /\ Head(s) \in SpaceChars THEN trimBlanks(Tail(s))
  ELSE IF s # <<>> /\ s[Len(s)] \in SpaceChars
  THEN trimBlanks(SubSeq(s, 1, Len(s) - 1))
  ELSE s

\* columnsRaw.split(",").map((c) => c.trim()).filter((x) => !!x)
splitColumns(columnsRaw) ==
  SelectSeq([i \in 1..Len(splitComma(columnsRaw)) |->
               trimBlanks(splitComma(columnsRaw)[i])],
            LAMBDA c : c # <<>>)

\* a result of analyzeUserQuery: the three fields null, or the three set
Unstructured(fallbackMessage) ==
  [dataset |-> <<>>, columnsNull |-> TRUE, columns |-> <<>>, value |-> <<>>,
   fallbackNull |-> FALSE, fallbackMessage |-> fallbackMessage]

\* analyzeUserQuery from the reply of its call on (lines 143-216): the
\* checks of the response, the three regular expressions, the catch
analyzeUserQuery_003a_reply(reply) ==
  IF reply.kind = "reject"
  THEN Unstructured(<<"I encountered an issue retrieving your data. Please try again later.">>)
  ELSE IF reply.kind = "nochoices"
  THEN Unstructured(<<"I'm not sure what you're asking. Please try again.">>)
  ELSE IF reply.content = <<>>
  THEN Unstructured(<<"I couldn't extract any useful data from the response.">>)
  ELSE
    LET dataset == datasetMatch(reply.content)
        columnsRaw == columnsMatch(reply.content)
        value == valueMatch(reply.content)
    IN IF dataset = <<>> \/ columnsRaw = <<>> \/ value = <<>>
       THEN Unstructured(<<"I'm not sure about that exact query, but I can help look up stock levels, suppliers, or material info. What exactly do you need?">>)
       ELSE [dataset |-> dataset, columnsNull |-> FALSE,
             columns |-> splitColumns(columnsRaw), value |-> value,
             fallbackNull |-> TRUE, fallbackMessage |-> <<>>]

searchDataset_003a_exists(s, reply) ==
  IF reply = "true" THEN [s EXCEPT !.phase = "download"]
  ELSE [RejectSd(s, wrapError(s.filename,
                     IF reply = "false"
                     THEN <<"File ", s.filename, " not found in Blob Storage.">>
                     ELSE <<"blob service unavailable">>))
          EXCEPT !.phase = "end"]

searchDataset_003a_download(s, ok, doc) ==
  IF ~ok THEN [RejectSd(s, wrapError(s.filename, <<"download failed">>))
                 EXCEPT !.phase = "end"]
  ELSE IF doc = EmptyDoc
  THEN [RejectSd(s, wrapError(s.filename, <<"File ", s.filename, " is empty.">>))
          EXCEPT !.phase = "end"]
  ELSE [s EXCEPT !.doc = doc, !.phase = "headers", !.promise = "pending"]

\* a headers listener that only logs the missing columns
searchDataset_003a_headers_noReject(s) == [s EXCEPT !.phase = "rows"]

\* the "headers" listener: rejects, and does not stop the parser
searchDataset_003a_headers(s) ==
  LET validColumns == SelectSeq(s.columns, LAMBDA col : col \in Range(s.doc.headers))
      t == [s EXCEPT !.phase = "rows"]
  IN IF Len(validColumns) = 0
     THEN RejectSd(t, <<"Required columns missing in ", s.filename, ".">>)
     ELSE t

\* the "data" listener's loop over the columns, with its break:
\* <<does the row match, how many includes() were evaluated>>
\* a case-sensitive comparison in place of the lowercased one
RECURSIVE rowMatch_003a_caseSensitive(_, _, _)
rowMatch_003a_caseSensitive(row, columns, value) ==
  IF columns = <<>> THEN [hit |-> FALSE, compared |-> 0]
  ELSE
    LET column == Head(columns) IN
    IF Get(row, column) # <<>>
    THEN IF includes(trim(row[column]), trim(value))
         THEN [hit |-> TRUE, compared |-> 1]
         ELSE LET r == rowMatch_003a_caseSensitive(row, Tail(columns), value)
              IN [hit |-> r.hit, compared |-> r.compared + 1]
    ELSE rowMatch_003a_caseSensitive(row, Tail(columns), value)

RECURSIVE rowMatch_003a(_, _, _)
rowMatch_003a(row, columns, value) ==
  IF columns = <<>> THEN [hit |-> FALSE, compared |-> 0]
  ELSE
    LET column == Head(columns) IN
    IF Get(row, column) # <<>>
    THEN LET rowValue == toLowerCase(trim(row[column]))
             searchValue == toLowerCase(trim(value))
         IN IF includes(rowValue, searchValue)
            THEN [hit |-> TRUE, compared |-> 1]
            ELSE LET r == rowMatch_003a(row, Tail(columns), value)
                 IN [hit |-> r.hit, compared |-> r.compared + 1]
    ELSE rowMatch_003a(row, Tail(columns), value)

searchDataset_003a_data(s) ==
  LET row == s.doc.rows[s.row]
      m == rowMatch_003a(row, s.columns, s.value)
  IN [s EXCEPT !.row = s.row + 1,
               !.compared = s.compared + m.compared,
               !.results = IF m.hit THEN Append(s.results, row) ELSE s.results]

searchDataset_003a_end(s) == [ResolveSd(s) EXCEPT !.phase = "end"]

--------------------------------------------------------------------------
(* src/unnamed/part_002 *)

\* analyzeUserQuery: every failure and every missing field gives the nulls
analyzeUserQuery_002(reply) ==
  IF reply.kind = "json" /\ reply.dataset # "" /\ reply.column # ""
       /\ reply.value # <<>>
  THEN Ok([isValid |-> TRUE, dataset |-> reply.dataset,
           columns |-> <<reply.column>>, value |-> reply.value,
           fallback |-> <<>>])
  ELSE Ok(NoAnalysis)

searchDataset_002_exists(s, reply) ==
  IF reply = "true" THEN [s EXCEPT !.phase = "download"]
  ELSE [RejectSd(s, wrapError(s.filename,
                     IF reply = "false"
                     THEN <<"File ", s.filename, " not found in Blob Storage.">>
                     ELSE <<"blob service unavailable">>))
          EXCEPT !.phase = "end"]

searchDataset_002_download(s, ok, doc) ==
  IF ~ok THEN [RejectSd(s, wrapError(s.filename, <<"download failed">>))
                 EXCEPT !.phase = "end"]
  ELSE IF doc = EmptyDoc
  THEN [RejectSd(s, wrapError(s.filename, <<"File ", s.filename, " is empty.">>))
          EXCEPT !.phase = "end"]
  ELSE [s EXCEPT !.doc = doc, !.phase = "headers", !.promise = "pending"]

searchDataset_002_headers(s) ==
  LET column == s.columns[1]
      t == [s EXCEPT !.phase = "rows"]
  IN IF column \notin Range(s.doc.headers)
     THEN RejectSd(t, <<"Column '", column, "' not found in ", s.filename, ".">>)
     ELSE [t EXCEPT !.headersChecked = TRUE]

searchDataset_002_data(s) ==
  LET column == s.columns[1]
      row == s.doc.rows[s.row]
      t == [s EXCEPT !.row = s.row + 1]
  IN IF ~s.headersChecked
     THEN RejectSd(t, <<"CSV headers not properly read for ", s.filename, ".">>)
     ELSE IF column \notin DOMAIN row THEN t
     ELSE LET rowValue == toLowerCase(trim(Get(row, column)))
              searchValue == toLowerCase(trim(s.value))
          IN [t EXCEPT !.compared = s.compared + 1,
                       !.results = IF includes(rowValue, searchValue)
                                   THEN Append(s.results, row) ELSE s.results]

searchDataset_002_end(s) == [ResolveSd(s) EXCEPT !.phase = "end"]

\* formatResults(results, column): the first result's value in the column
formatResults_002(results, column) ==
  IF Len(results) = 0
  THEN <<"I couldn't find any matching records. Would you like me to check something else?">>
  ELSE
    LET requestedValue == OrElse(Get(results[1], column), <<"Unknown">>) IN
    CASE column = "soh" ->
           <<"Lookapp AI: The current stock on hand is a quantity of ">>
             \o requestedValue \o <<". Let me know if you need more details.">>
      [] column = "storage_bin" ->
           <<"Lookapp AI: The item is stored in bin ">> \o requestedValue
             \o <<". Do you need help locating it?">>
      [] column = "unit_price" ->
           <<"Lookapp AI: The most recent price for this item is $">>
             \o requestedValue
             \o <<" per unit. Let me know if you need more pricing details.">>
      [] column = "vendorID" ->
           <<"Lookapp AI: This item is typically purchased from Vendor ID ">>
             \o requestedValue \o <<". Would you like supplier details?">>
      [] column = "order_qty" ->
           <<"Lookapp AI: The last purchase order for this item was for ">>
             \o requestedValue
             \o <<" units. Would you like to see more order history?">>
      [] OTHER ->
           <<"Lookapp AI: The requested information for ", column, " is ">>
             \o requestedValue \o <<". Let me know if you need anything else.">>

\* the handler calls formatResults(searchResults, context): the column
\* parameter receives the context object, whose string form is this
ContextAsColumn == "[object Object]"

--------------------------------------------------------------------------
(* src/unnamed/part_001 *)

\* analyzeUserQuery: the call is awaited outside the try, so its rejection
\* propagates; whatever JSON.parse cannot read gives the nulls; a parsed
\* object is returned as it is and the handler tests its three fields
analyzeUserQuery_001(reply) ==
  IF reply.kind = "reject" THEN Throw(<<"classification call failed">>)
  ELSE IF reply.kind = "json" /\ reply.dataset # "" /\ reply.column # ""
            /\ reply.value # <<>>
  THEN Ok([isValid |-> TRUE, dataset |-> reply.dataset,
           columns |-> <<reply.column>>, value |-> reply.value,
           fallback |-> <<>>])
  ELSE Ok(NoAnalysis)

searchDataset_001_exists(s, reply) ==
  IF reply = "true" THEN [s EXCEPT !.phase = "download"]
  ELSE [RejectSd(s, wrapError(s.filename,
                     IF reply = "false"
                     THEN <<"File ", s.filename, " not found.">>
                     ELSE <<"blob service unavailable">>))
          EXCEPT !.phase = "end"]

\* the parser is started and `return results` follows at once: the promise
\* resolves with the list as it is then, before any "data" event
searchDataset_001_download(s, ok, doc) ==
  IF ~ok THEN [RejectSd(s, wrapError(s.filename, <<"download failed">>))
                 EXCEPT !.phase = "end"]
  ELSE IF doc = EmptyDoc
  THEN [RejectSd(s, wrapError(s.filename, <<"File ", s.filename, " is empty.">>))
          EXCEPT !.phase = "end"]
  ELSE ResolveSd([s EXCEPT !.doc = doc, !.phase = "rows"])

\* the "data" listener: it fills the list the handler was already given
searchDataset_001_data(s) ==
  LET column == s.columns[1]
      row == s.doc.rows[s.row]
      t == [s EXCEPT !.row = s.row + 1]
  IN IF Get(row, column) = <<>> THEN t
     ELSE [t EXCEPT !.compared = s.compared + 1,
                    !.results =
                      IF includes(toLowerCase(row[column]), toLowerCase(s.value))
                      THEN Append(s.results, row) ELSE s.results]

\* the "end" listener only logs
searchDataset_001_end(s) == [s EXCEPT !.phase = "end"]

\* Object.entries(row).map(([key, value]) => `**${key}**: ${value}`).join("\n")
formatRow_001(row) ==
  LET keys == SelectSeq(KeyOrder, LAMBDA k : k \in DOMAIN row)
  IN JoinLines([i \in 1..Len(keys) |-> <<"**", keys[i], "**: ">> \o row[keys[i]]])

\* formatResults(results): the rows' texts joined by an empty line
RECURSIVE formatResults_001(_)
formatResults_001(results) ==
  IF results = <<>> THEN <<>>
  ELSE IF Len(results) = 1 THEN formatRow_001(results[1])
  ELSE formatRow_001(results[1]) \o <<"\n", "\n">> \o formatResults_001(Tail(results))

--------------------------------------------------------------------------
(* src/chatFunction/index.js, second revision (lines 333-523) *)

\* analyzeUserQuery returns whatever JSON.parse gives; the handler reads
\* dataset, column and value of it
analyzeUserQuery_chat2(reply) ==
  IF reply.kind = "json"
  THEN Ok([isValid |-> reply.dataset # "" /\ reply.column # "" /\ reply.value # <<>>,
           dataset |-> reply.dataset, columns |-> <<reply.column>>,
           value |-> reply.value, fallback |-> <<>>])
  ELSE Ok(NoAnalysis)

searchDataset_chat2_exists(s, reply) ==
  IF reply = "true" THEN [s EXCEPT !.phase = "download"]
  ELSE [RejectSd(s, wrapError(s.filename,
                     IF reply = "false"
                     THEN <<"File ", s.filename, " not found.">>
                     ELSE <<"blob service unavailable">>))
          EXCEPT !.phase = "end"]

searchDataset_chat2_download(s, ok, doc) ==
  IF ~ok THEN [RejectSd(s, wrapError(s.filename, <<"download failed">>))
                 EXCEPT !.phase = "end"]
  ELSE IF doc = EmptyDoc
  THEN [RejectSd(s, wrapError(s.filename, <<"File ", s.filename, " is empty.">>))
          EXCEPT !.phase = "end"]
  ELSE [s EXCEPT !.doc = doc, !.phase = "rows", !.promise = "pending"]

searchDataset_chat2_data(s) ==
  LET column == s.columns[1]
      row == s.doc.rows[s.row]
      t == [s EXCEPT !.row = s.row + 1]
  IN IF Get(row, column) = <<>> THEN t
     ELSE [t EXCEPT !.compared = s.compared + 1,
                    !.results =
                      IF includes(toLowerCase(row[column]), toLowerCase(s.value))
                      THEN Append(s.results, row) ELSE s.results]

searchDataset_chat2_end(s) == [ResolveSd(s) EXCEPT !.phase = "end"]

\* formatResults(results): one of three sentences, chosen by Math.random
formatResults_chat2(results, k) ==
  IF Len(results) = 0
  THEN <<"Hmm... I couldn't find any matching records. Want me to check something else?">>
  ELSE
    LET row == results[1]
        sku == OrElse(Get(row, "sku_id"), <<"Unknown SKU">>)
        stock == OrElse(Get(row, "soh"), <<"0">>)
        unit == OrElse(Get(row, "uom"), <<"units">>)
        description == OrElse(Get(row, "item_description"), <<"No description available">>)
        tail == <<" (">> \o description \o <<")">>
    IN CASE k = 1 ->
              <<"I found SKU **">> \o sku \o <<"**">> \o tail \o <<". We have **">>
                \o stock \o <<" ">> \o unit \o <<"** in stock. Need anything else?">>
         [] k = 2 ->
              <<"SKU **">> \o sku \o <<"**">> \o tail \o <<" currently has **">>
                \o stock \o <<" ">> \o unit
                \o <<"** in stock. Let me know if you need more details!">>
         [] OTHER ->
              <<"For SKU **">> \o sku \o <<"**">> \o tail \o <<", there are **">>
                \o stock \o <<" ">> \o unit
                \o <<"** available. Anything else I can help with?">>

--------------------------------------------------------------------------
(* src/unnamed/part_003, second revision (lines 371-506) *)

IsDigit(c) == c \in {"0", "1", "2", "3", "4", "5", "6", "7", "8", "9"}

\* \d+ at the head of s
RECURSIVE TakeDigits(_)
TakeDigits(s) ==
  IF s # <<>> /\ IsDigit(Head(s)) THEN <<Head(s)>> \o TakeDigits(Tail(s))
  ELSE <<>>

\* /sku\s+(\d+)/i matched at the head of s: the digits captured (<<>>: none)
skuAt(s) ==
  IF Len(s) >= 3 /\ toLowerCase(SubSeq(s, 1, 3)) = <<"s", "k", "u">>
  THEN LET rest == SubSeq(s, 4, Len(s)) IN
       IF TrimLeft(rest) # rest THEN TakeDigits(TrimLeft(rest)) ELSE <<>>
  ELSE <<>>

\* userMessage.match(/sku\s+(\d+)/i): group 1 of the leftmost match
RECURSIVE skuMatch(_)
skuMatch(s) ==
  IF s = <<>> THEN <<>>
  ELSE IF skuAt(s) # <<>> THEN skuAt(s)
  ELSE skuMatch(Tail(s))

PumpQuestion == <<"w", "h", "e", "r", "e", " ", "d", "o", " ", "w", "e", " ", "b", "u", "y", " ", "t", "h", "i", "s", " ", "p", "u", "m", "p">>

\* userMessage.match(/where do we buy this pump/i)
pumpMatch(s) == includes(toLowerCase(s), PumpQuestion)

\* the search the handler starts for a message, if any
route_003b(userMessage) ==
  IF skuMatch(userMessage) # <<>>
  THEN [isValid |-> TRUE, dataset |-> "purchaseRecords.csv",
        columns |-> <<"sku_id">>, value |-> skuMatch(userMessage),
        fallback |-> <<>>]
  ELSE IF pumpMatch(userMessage)
  THEN [isValid |-> TRUE, dataset |-> "purchaseRecords.csv",
        columns |-> <<"item_description">>, value |-> Spump,
        fallback |-> <<>>]
  ELSE NoAnalysis

\* a searchDataset that can read the handler's context
contextInScope_yes == TRUE

\* does the name context resolve inside searchDataset: it is a parameter of
\* the handler, and neither a parameter of searchDataset nor a module name
contextInScope_003b == FALSE

\* searchDataset up to its first await: line 465 reads context and throws;
\* the catch reads context again (line 502) before it can wrap the error, so
\* the promise rejects with the ReferenceError itself
searchDataset_003b_start(filename, column, value) ==
  IF contextInScope_003b
  THEN StartSd(filename, <<column>>, value)
  ELSE [RejectSd(StartSd(filename, <<column>>, value), <<"context is not defined">>)
          EXCEPT !.phase = "end"]

searchDataset_003b_exists(s, reply) ==
  IF reply = "true" THEN [s EXCEPT !.phase = "download"]
  ELSE [RejectSd(s, wrapError(s.filename,
                     IF reply = "false"
                     THEN <<"File ", s.filename, " not found in Blob Storage.">>
                     ELSE <<"blob service unavailable">>))
          EXCEPT !.phase = "end"]

\* the download settles: the promise is created and the body piped to a
\* write stream on the staging file
searchDataset_003b_download(s, ok, doc) ==
  IF ~ok THEN [RejectSd(s, wrapError(s.filename, <<"download failed">>))
                 EXCEPT !.phase = "end"]
  ELSE [s EXCEPT !.doc = doc, !.phase = "staging", !.promise = "pending"]

\* the characters of a column name
ColumnChars(n) ==
  CASE n = "sku_id" -> <<"s", "k", "u", "_", "i", "d">>
    [] n = "item_description" ->
         <<"i", "t", "e", "m", "_", "d", "e", "s", "c", "r", "i", "p", "t", "i", "o", "n">>
    [] n = "soh" -> <<"s", "o", "h">>
    [] n = "vendorName" -> <<"v", "e", "n", "d", "o", "r", "N", "a", "m", "e">>
    [] OTHER -> <<"?">>

\* the cells of a line, comma separated and ended by a line feed
RECURSIVE csvLine(_)
csvLine(cells) ==
  IF Len(cells) = 0 THEN <<"\n">>
  ELSE IF Len(cells) = 1 THEN cells[1] \o <<"\n">>
  ELSE cells[1] \o <<",">> \o csvLine(Tail(cells))

RECURSIVE csvRows(_, _)
csvRows(headers, rows) ==
  IF rows = <<>> THEN <<>>
  ELSE csvLine([i \in DOMAIN headers |-> Get(rows[1], headers[i])])
         \o csvRows(headers, Tail(rows))

\* readableStreamBody: the bytes of a blob whose content parses to doc
csvText(doc) ==
  IF doc.headers = <<>> THEN <<>>
  ELSE csvLine([i \in DOMAIN doc.headers |-> ColumnChars(doc.headers[i])])
         \o csvRows(doc.headers, doc.rows)

\* s cut at every sep: String.prototype.split on one character
SplitOn(s, sep) ==
  LET cuts == {0} \cup {i \in DOMAIN s : s[i] = sep} \cup {Len(s) + 1}
      cut(k) == CHOOSE c \in cuts : Cardinality({d \in cuts : d < c}) = k - 1
  IN [k \in 1..(Cardinality(cuts) - 1) |-> SubSeq(s, cut(k) + 1, cut(k + 1) - 1)]

\* csv.parse({ headers: true }) on a text: the first line names the columns,
\* every further line is a row; a missing cell is empty, and a line with
\* more cells than there are columns is an error.  The line feed that ends
\* the text begins no line.  A header line of the staging file is always
\* the header line some body began with: every body is written from offset
\* 0 and begins with its whole header line.
parseCsv(text) ==
  LET segs == SplitOn(text, "\n")
      lines == IF segs[Len(segs)] = <<>> THEN SubSeq(segs, 1, Len(segs) - 1)
               ELSE segs
      ColumnOf(chars) ==
        LET names == {n \in Range(HeadersA) \cup Range(HeadersB) :
                        ColumnChars(n) = chars}
        IN IF names # {} THEN CHOOSE n \in names : TRUE ELSE "?"
  IN
  IF lines = <<>> THEN [ok |-> TRUE, err |-> <<>>, headers |-> <<>>, rows |-> <<>>]
  ELSE LET heads == [i \in DOMAIN SplitOn(lines[1], ",") |->
                       ColumnOf(SplitOn(lines[1], ",")[i])]
           cells(k) == SplitOn(lines[k + 1], ",")
           n == Len(lines) - 1
           bad == {k \in 1..n : Len(cells(k)) > Len(heads)}
           at(h) == CHOOSE i \in DOMAIN heads : heads[i] = h
           row(k) == [h \in Range(heads) |->
                        IF at(h) <= Len(cells(k)) THEN cells(k)[at(h)] ELSE <<>>]
       IN IF bad # {}
          THEN LET k == CHOOSE b \in bad : \A c \in bad : b <= c IN
               [ok |-> FALSE,
                err |-> <<"Unexpected Error: column header mismatch expected: ",
                          ToString(Len(heads)), " columns got: ",
                          ToString(Len(cells(k)))>>,
                headers |-> heads, rows |-> <<>>]
          ELSE [ok |-> TRUE, err |-> <<>>, headers |-> heads,
                rows |-> [k \in 1..n |-> row(k)]]

\* fs.createWriteStream(csvPath), flag "w": the file is created, or emptied
createWriteStream(file) == <<>>

\* the body piped into the write stream: written from offset 0 of the file
\* as it is by now; what another write stream has left in the file beyond
\* the end of this body stays
writeBody(file, bytes) == bytes \o SubSeq(file, Len(bytes) + 1, Len(file))

\* "finish" of the write stream: the body is in the file, which is opened
\* for reading
searchDataset_003b_finish(s) == [s EXCEPT !.phase = "parse"]

\* the parser has read the staging file to its end: the rows whose column
\* holds the value, whatever the file holds by now; the parser's error
\* rejects the promise
searchDataset_003b_parse(s, file) ==
  LET column == s.columns[1]
      parsed == parseCsv(file)
      hit(row) == /\ Get(row, column) # <<>>
                  /\ includes(toLowerCase(Get(row, column)), toLowerCase(s.value))
  IN IF ~parsed.ok THEN [RejectSd(s, parsed.err) EXCEPT !.phase = "end"]
     ELSE [ResolveSd([s EXCEPT !.results = SelectSeq(parsed.rows, hit)])
             EXCEPT !.phase = "end"]

\* ${record.name} in a template literal
Field(record, name) ==
  IF name \in DOMAIN record THEN record[name] ELSE <<"undefined">>

\* the handler's answer to a settled search: the first record, or none
answer_003b(a, s) ==
  IF Len(s.results) > 0
  THEN LET record == s.results[1] IN
       IF a.columns[1] = "sku_id"
       THEN <<"Yes, there is a purchase order (">> \o Field(record, "purchaseOrd")
              \o <<") for SKU ">> \o a.value \o <<" with vendor ">>
              \o Field(record, "vendorName") \o <<", ordered on ">>
              \o Field(record, "doc_creation_date")
              \o <<", and delivery is expected on ">>
              \o Field(record, "delivery_date") \o <<".">>
       ELSE <<"We buy this pump from **">> \o Field(record, "vendorName")
              \o <<"** under Purchase Order **">> \o Field(record, "purchaseOrd")
              \o <<"**, ordered on **">> \o Field(record, "doc_creation_date")
              \o <<"**, with expected delivery on **">>
              \o Field(record, "delivery_date") \o <<"**.">>
  ELSE IF a.columns[1] = "sku_id"
  THEN <<"No purchase order found for SKU ">> \o a.value \o <<".">>
  ELSE <<"No purchase records found for a pump.">>

--------------------------------------------------------------------------
(* The handlers *)

\* the revisions: a source file, or one of the handlers a file holds
Revs == {"part_000", "part_001", "part_002", "part_003a", "part_004",
         "casual_1", "casual_2", "chat_2"}

\* revisions that classify the message and search a dataset
ClassifyRevs == {"part_000", "part_001", "part_002", "part_003a", "chat_2"}

\* the replies the classification prompt of a revision asks for
ReplyDomain(r) ==
  FailedReplies \cup (IF r = "part_000" THEN JsonReplies ELSE JsonColumnReplies)

\* req.body && req.body.userMessage
hasUserMessage(b) == b.has /\ b.um = "string" /\ b.text # <<>>

\* the input check of each handler: the response it ends with, or status 0
\* and the user message it goes on with
validate(r, e, b) ==
  CASE r = "part_000" ->
         \* req.body?.userMessage?.trim()
         IF hasUserMessage(b) /\ trim(b.text) # <<>>
         THEN [resp |-> NoResp, um |-> trim(b.text)]
         ELSE [resp |-> Resp(400, "error", <<"Missing userMessage">>, <<>>), um |-> <<>>]
    [] r \in {"part_001", "part_002", "part_003a", "part_003b", "chat_2"} ->
         IF hasUserMessage(b) /\ trim(b.text) # <<>>
         THEN [resp |-> NoResp, um |-> trim(b.text)]
         ELSE [resp |-> Resp(400, "message",
                             <<"Error: No userMessage found in request body.">>, <<>>),
               um |-> <<>>]
    [] r = "part_004" ->
         IF ~e.key
         THEN [resp |-> Resp(500, "error",
                             <<"Server misconfiguration: API Key missing">>, <<>>),
               um |-> <<>>]
         ELSE IF ~hasUserMessage(b)
         THEN [resp |-> Resp(400, "error", <<"Missing user input.">>, <<>>), um |-> <<>>]
         ELSE [resp |-> NoResp, um |-> trim(b.text)]
    [] r = "casual_1" ->
         IF ~hasUserMessage(b)
         THEN [resp |-> Resp(400, "error", <<"Missing userMessage in request.">>, <<>>),
               um |-> <<>>]
         ELSE [resp |-> NoResp, um |-> b.text]
    [] r = "casual_2" ->
         IF ~hasUserMessage(b)
         THEN [resp |-> Resp(400, "error", <<"Missing or invalid 'userMessage'">>, <<>>),
               um |-> <<>>]
         ELSE [resp |-> NoResp, um |-> trim(b.text)]

\* a validation that tests the API key only
loads_keyOnly(r, e) == r = "part_000" => e.key

\* the module-level validation of part_000: both variables must be set
loads(r, e) == r = "part_000" => (e.key /\ e.conn)

\* a test for the lowercase word
isTimeout_lowercase(e) == \E i \in DOMAIN e : e[i] = "timeout after "

\* error.message.includes("Timeout")
isTimeout(e) == \E i \in DOMAIN e : e[i] = "Timeout after "

UsageHint == <<"Try using specific inventory terms like SKU numbers or product names">>

\* ENV.RESPONSE_TIMEOUT is never set: the message reads "undefinedms"
TimeoutError == <<"Timeout after ", "undefined", "ms">>

\* setTimeout(fn, ENV.RESPONSE_TIMEOUT) with the delay undefined: Node takes
\* a delay that is no number from 1 up as 1 ms
TimerDelay == 1

\* the duration the handler's description gives the timeout: 8 seconds
StatedTimeout == 8000

\* how long an outbound call can take, in ms; only the racing handler has a
\* timer that reads the clock
Durations(r) == IF r = "part_000" THEN {0, 1, StatedTimeout} ELSE {0}

\* d ms pass while the handler awaits: an armed timer that falls due
\* earlier runs first
Elapse(d) ==
  /\ timer = "armed" => now + d <= TimerDelay
  /\ now' = IF now + d > MaxClock THEN MaxClock ELSE now + d

\* the catch of each handler around its pipeline
topCatch(r, e) ==
  CASE r = "part_000" ->
         Resp(500, "error", <<"Processing failed">>, IF isTimeout(e) THEN UsageHint ELSE e)
    [] r = "part_004" -> Resp(500, "error", <<"Failed to process request.">>, e)
    [] r = "casual_2" -> Resp(500, "error", <<"Something went wrong">>, e)
    [] OTHER -> Resp(500, "message", <<"Error processing request: ">> \o e, <<>>)

\* the classifier of each revision on the reply of its LLM call
classify(r, reply) ==
  CASE r = "part_000" -> analyzeQuery(reply)
    [] r = "part_001" -> analyzeUserQuery_001(reply)
    [] r = "part_002" -> analyzeUserQuery_002(reply)
    [] OTHER -> analyzeUserQuery_chat2(reply)

\* the steps of the dataset search of each revision
sdExists(r, s, reply) ==
  CASE r = "part_000" -> queryDataset_exists(s, reply)
    [] r = "part_001" -> searchDataset_001_exists(s, reply)
    [] r = "part_002" -> searchDataset_002_exists(s, reply)
    [] r = "part_003a" -> searchDataset_003a_exists(s, reply)
    [] r = "part_003b" -> searchDataset_003b_exists(s, reply)
    [] OTHER -> searchDataset_chat2_exists(s, reply)

sdDownload(r, s, ok, doc) ==
  CASE r = "part_000" -> queryDataset_download(s, ok, doc)
    [] r = "part_001" -> searchDataset_001_download(s, ok, doc)
    [] r = "part_002" -> searchDataset_002_download(s, ok, doc)
    [] r = "part_003a" -> searchDataset_003a_download(s, ok, doc)
    [] r = "part_003b" -> searchDataset_003b_download(s, ok, doc)
    [] OTHER -> searchDataset_chat2_download(s, ok, doc)

sdHeaders(r, s) ==
  CASE r = "part_000" -> processCSVData(s)
    [] r = "part_002" -> searchDataset_002_headers(s)
    [] OTHER -> searchDataset_003a_headers(s)

sdData(r, s) ==
  CASE r = "part_001" -> searchDataset_001_data(s)
    [] r = "part_002" -> searchDataset_002_data(s)
    [] r = "part_003a" -> searchDataset_003a_data(s)
    [] OTHER -> searchDataset_chat2_data(s)

sdEnd(r, s) ==
  CASE r = "part_001" -> searchDataset_001_end(s)
    [] r = "part_002" -> searchDataset_002_end(s)
    [] r = "part_003a" -> searchDataset_003a_end(s)
    [] OTHER -> searchDataset_chat2_end(s)

\* a handler that answers an empty result like a failed search
afterSearch_emptyIsError(r, a, s, k) ==
  IF s.promise = "resolved" /\ Len(s.results) = 0
  THEN Resp(500, "message", <<"Error searching dataset: no rows">>, <<>>)
  ELSE Resp(200, "message", <<"found">>, <<>>)

\* what the handler answers once the search promise has settled
\* (k: the sentence Math.random picks in chat_2)
afterSearch(r, a, s, k) ==
  CASE r = "part_000" ->
         IF s.promise = "resolved"
         THEN Resp(200, "message", format(s.results, a.columns, a.value), <<>>)
         ELSE topCatch(r, s.err)
    [] r = "part_002" ->
         IF s.promise = "rejected"
         THEN Resp(500, "message", <<"Error searching dataset: ">> \o s.err, <<>>)
         ELSE IF Len(s.results) > 0
         THEN Resp(200, "message", formatResults_002(s.results, ContextAsColumn), <<>>)
         ELSE Resp(200, "message",
                   <<"No records found for '">> \o a.value \o <<"' in ", a.dataset, ".">>,
                   <<>>)
    [] r = "part_003b" ->
         IF s.promise = "rejected" THEN topCatch(r, s.err)
         ELSE Resp(200, "message", answer_003b(a, s), <<>>)
    [] r = "part_001" ->
         IF s.promise = "rejected"
         THEN Resp(500, "message", <<"Error searching dataset: ">> \o s.err, <<>>)
         ELSE IF Len(s.results) > 0
         THEN Resp(200, "message", formatResults_001(s.results), <<>>)
         ELSE Resp(200, "message",
                   <<"No records found for '">> \o a.value \o <<"' in ", a.dataset, ".">>,
                   <<>>)
    [] OTHER ->
         IF s.promise = "rejected"
         THEN Resp(500, "message", <<"Error searching dataset: ">> \o s.err, <<>>)
         ELSE IF Len(s.results) > 0
         THEN Resp(200, "message", formatResults_chat2(s.results, k), <<>>)
         \* the source writes "couldn't" with the apostrophe U+2019
         ELSE Resp(200, "message",
                   <<"I couldn't find any records for '">> \o a.value
                     \o <<"'. Let me know if I can help with anything else!">>,
                   <<>>)

\* what the handler answers to the reply of the plain chat completion
afterChat(r, a, reply) ==
  CASE r = "part_000" ->
         IF reply.kind = "reject" THEN topCatch(r, <<"chat call failed">>)
         ELSE IF reply.kind = "nochoices"
         THEN topCatch(r, <<"Cannot read properties of undefined (reading 'message')">>)
         ELSE Resp(200, "message", OrElse(reply.content, a.fallback), <<>>)
    [] r \in {"part_001", "part_002", "part_003b"} ->
         IF reply.kind = "reject" THEN topCatch(r, <<"chat call failed">>)
         ELSE IF reply.kind = "nochoices"
         THEN topCatch(r, <<"Cannot read properties of undefined (reading 'message')">>)
         ELSE Resp(200, "message", reply.content, <<>>)
    [] r = "chat_2" ->
         IF reply.kind = "reject" THEN topCatch(r, <<"chat call failed">>)
         ELSE Resp(200, "message",
                   OrElse(reply.content,
                          <<"I'm not sure about that, but let me know how else I can help!">>),
                   <<>>)
    [] r = "part_004" ->
         IF reply.kind = "reject" THEN topCatch(r, <<"chat call failed">>)
         ELSE IF reply.kind = "nochoices"
         THEN topCatch(r, <<"Invalid OpenAI response format.">>)
         ELSE Resp(200, "message", reply.content, <<>>)
    [] OTHER ->
         \* casual_2: CasualChatService.handleChat
         IF reply.kind = "reject" THEN topCatch(r, <<"chat call failed">>)
         ELSE Resp(200, "message",
                   OrElse(reply.content, <<"I'm not sure how to respond to that.">>),
                   <<>>)

--------------------------------------------------------------------------
(* The state machine of one request *)

NoCalls == [classify |-> 0, chat |-> 0, exists |-> 0, download |-> 0]

NoFn ==
  [name |-> "none", rows |-> <<>>, columns |-> <<>>, value |-> <<>>,
   applied |-> FALSE, out |-> <<>>, outRows |-> <<>>,
   reply |-> NoChat, parsed |-> Unstructured(<<>>)]

Init ==
  /\ entry = "handler"
  /\ rev \in Revs
  /\ env \in Envs
  /\ body \in Bodies
  /\ pc = "load"
  /\ um = <<>>
  /\ analysis = NoAnalysis
  /\ sd = NoSd
  /\ resp = NoResp
  /\ timer = "none"
  /\ calls = NoCalls
  /\ llmIn = NoReply
  /\ chatIn = NoChat
  /\ fn = NoFn
  /\ blobIn = "none"
  /\ now = 0
  /\ reqs = <<>>
  /\ tmp = NoFile

\* a race whose every settlement becomes the response
Settle_lastWins(r) == r

\* Promise.race in part_000, context.res / return elsewhere: the first
\* settlement is the response
Settle(r) == IF resp.status = 0 THEN r ELSE resp

\* the module is loaded (require): part_000 validates its environment
Load ==
  /\ pc = "load"
  /\ pc' = IF loads(rev, env) THEN "idle" ELSE "loadfail"
  /\ UNCHANGED <<reqs, tmp, entry, rev, env, body, um, analysis, sd, resp, timer, calls,
                 llmIn, chatIn, fn, now, blobIn>>

\* a handler that issues the classification call before it checks the input
Invoke_callFirst ==
  /\ pc = "idle"
  /\ LET v == validate(rev, env, body) IN
     /\ um' = v.um
     /\ timer' = IF rev = "part_000" THEN "armed" ELSE "none"
     /\ calls' = [calls EXCEPT !.classify = @ + 1]
     /\ IF v.resp.status # 0
        THEN /\ resp' = v.resp
             /\ pc' = "done"
        ELSE /\ pc' = "classify"
             /\ UNCHANGED resp
  /\ UNCHANGED <<reqs, tmp, entry, rev, env, body, sd, llmIn, chatIn, fn, now, blobIn,
                 analysis>>

\* the handler is called with the request and runs to its first await
Invoke ==
  /\ pc = "idle"
  /\ LET v == validate(rev, env, body) IN
     /\ um' = v.um
     /\ timer' = IF rev = "part_000" THEN "armed" ELSE "none"
     /\ IF v.resp.status # 0
        THEN /\ resp' = v.resp
             /\ pc' = "done"
             /\ UNCHANGED <<analysis, calls>>
        ELSE IF rev = "part_003a"
        THEN LET a == analyzeUserQuery_003a(env) IN
             /\ analysis' = a.val
             /\ resp' = IF a.ok THEN Resp(200, "message", a.val.fallback, <<>>)
                        ELSE topCatch(rev, a.err)
             /\ pc' = "done"
             /\ UNCHANGED calls
        ELSE IF rev = "casual_1"
        THEN /\ resp' = Resp(200, "message",
                             <<"You said: \"">> \o v.um
                               \o <<"\". I'm here to assist you!">>, <<>>)
             /\ pc' = "done"
             /\ UNCHANGED <<analysis, calls>>
        ELSE IF rev \in ClassifyRevs
        THEN /\ calls' = [calls EXCEPT !.classify = @ + 1]
             /\ pc' = "classify"
             /\ UNCHANGED <<analysis, resp>>
        ELSE /\ calls' = [calls EXCEPT !.chat = @ + 1]
             /\ pc' = "chat"
             /\ UNCHANGED <<analysis, resp>>
  /\ UNCHANGED <<reqs, tmp, entry, rev, env, body, sd, llmIn, chatIn, fn, now, blobIn>>

\* the classification call settles; the handler branches on its result
ClassifyReturn ==
  /\ pc = "classify"
  /\ \E d \in Durations(rev) : Elapse(d)
  /\ \E reply \in ReplyDomain(rev) :
       LET a == classify(rev, reply) IN
       /\ llmIn' = reply
       /\ analysis' = a.val
       /\ IF ~a.ok
          THEN /\ resp' = Settle(topCatch(rev, a.err))
               /\ pc' = "done"
               /\ UNCHANGED <<sd, calls>>
          ELSE IF a.val.isValid
          THEN /\ sd' = StartSd(a.val.dataset, a.val.columns, a.val.value)
               /\ calls' = [calls EXCEPT !.exists = @ + 1]
               /\ pc' = "search"
               /\ UNCHANGED resp
          ELSE /\ calls' = [calls EXCEPT !.chat = @ + 1]
               /\ pc' = "chat"
               /\ UNCHANGED <<sd, resp>>
  /\ UNCHANGED <<reqs, tmp, entry, rev, env, body, um, timer, chatIn, fn, blobIn>>

\* a handler that goes on to the chat completion when the search finds no row
SearchStep_thenChat(s, k) ==
  /\ sd' = s
  /\ IF entry = "handler"
     THEN IF sd.promise \in {"none", "pending"} /\ s.promise \in {"resolved", "rejected"}
          THEN IF s.promise = "resolved" /\ s.results = <<>>
               THEN /\ pc' = "chat"
                    /\ UNCHANGED resp
               ELSE /\ resp' = Settle(afterSearch(rev, analysis, s, k))
                    /\ pc' = "done"
          ELSE UNCHANGED <<resp, pc>>
     ELSE /\ pc' = IF s.phase = "end" THEN "done" ELSE pc
          /\ UNCHANGED resp

\* a step of the search has produced s: when it settles the promise the
\* handler awaiting it answers; a search called directly just ends
SearchStep(s, k) ==
  /\ sd' = s
  /\ IF entry = "handler"
     THEN IF sd.promise \in {"none", "pending"} /\ s.promise \in {"resolved", "rejected"}
          THEN /\ resp' = Settle(afterSearch(rev, analysis, s, k))
               /\ pc' = "done"
          ELSE UNCHANGED <<resp, pc>>
     ELSE /\ pc' = IF s.phase = "end" THEN "done" ELSE pc
          /\ UNCHANGED resp

\* blobClient.exists() settles
ExistsReturn ==
  /\ sd.phase = "exists"
  /\ \E d \in Durations(rev) : Elapse(d)
  /\ \E reply \in ExistsReplies :
       LET s == sdExists(rev, sd, reply) IN
       /\ blobIn' = reply
       /\ SearchStep(s, 1)
       /\ calls' = IF s.phase = "download"
                   THEN [calls EXCEPT !.download = @ + 1] ELSE calls
  /\ UNCHANGED <<reqs, tmp, entry, rev, env, body, um, analysis, timer, llmIn, chatIn, fn>>

\* blobClient.download() settles and the content has been read
DownloadReturn ==
  /\ sd.phase = "download"
  /\ \E d \in Durations(rev) : Elapse(d)
  /\ \E ok \in BOOLEAN :
       \E doc \in (IF ok THEN Docs ELSE {EmptyDoc}) :
         SearchStep(sdDownload(rev, sd, ok, doc), 1)
  /\ UNCHANGED <<reqs, tmp, entry, rev, env, body, um, analysis, timer, calls, llmIn,
                 chatIn, fn, blobIn>>

\* part_000: the body stream of the download, piped into the parser by
\* csv.parseStream, emits "error" before its content has arrived.  pipe()
\* puts no "error" listener on its source and the code puts one on the
\* parser only, so the event is an uncaught exception and the process ends:
\* the parser emits nothing more, the promise of the search stays as it is,
\* an armed timer is lost with the process and nothing runs afterwards.
\* (The other revisions read the stream inside streamToString, which
\* rejects: that is DownloadReturn without ok.)
StreamError ==
  /\ rev = "part_000"
  /\ sd.phase = "headers"
  /\ sd' = [sd EXCEPT !.phase = "stalled"]
  /\ pc' = "exited"
  /\ timer' = IF timer = "armed" THEN "gone" ELSE timer
  /\ UNCHANGED <<reqs, tmp, entry, rev, env, body, um, analysis, resp, calls,
                 llmIn, chatIn, fn, blobIn, now>>

\* the parser has read the header line (part_000: the first chunk, or the end)
ParseHeaders ==
  /\ sd.phase = "headers"
  /\ SearchStep(sdHeaders(rev, sd), 1)
  /\ UNCHANGED <<reqs, tmp, entry, rev, env, body, um, analysis, timer, calls, llmIn,
                 chatIn, fn, now, blobIn>>

\* the parser emits the next data row
ParseRow ==
  /\ sd.phase = "rows"
  /\ sd.row <= Len(sd.doc.rows)
  /\ SearchStep(sdData(rev, sd), 1)
  /\ UNCHANGED <<reqs, tmp, entry, rev, env, body, um, analysis, timer, calls, llmIn,
                 chatIn, fn, now, blobIn>>

\* the parser emits "end"
ParseEnd ==
  /\ sd.phase = "rows"
  /\ sd.row > Len(sd.doc.rows)
  /\ \E k \in (IF rev = "chat_2" /\ entry = "handler" /\ sd.promise = "pending"
                  /\ Len(sd.results) > 0 THEN 1..3 ELSE {1}) :
       SearchStep(sdEnd(rev, sd), k)
  /\ UNCHANGED <<reqs, tmp, entry, rev, env, body, um, analysis, timer, calls, llmIn,
                 chatIn, fn, now, blobIn>>

\* a handler that issues the chat completion once more when it rejects
ChatReturn_retry ==
  /\ pc = "chat"
  /\ \E d \in Durations(rev) : Elapse(d)
  /\ \E reply \in ChatReplies :
       /\ chatIn' = reply
       /\ IF reply.kind = "reject" /\ calls.chat < 2
          THEN /\ calls' = [calls EXCEPT !.chat = @ + 1]
               /\ UNCHANGED <<pc, resp>>
          ELSE /\ resp' = Settle(afterChat(rev, analysis, reply))
               /\ pc' = "done"
               /\ UNCHANGED calls
  /\ UNCHANGED <<reqs, tmp, entry, rev, env, body, um, analysis, sd, timer, llmIn, fn, blobIn>>

\* the plain chat completion settles
ChatReturn ==
  /\ pc = "chat"
  /\ \E d \in Durations(rev) : Elapse(d)
  /\ \E reply \in ChatReplies :
       /\ chatIn' = reply
       /\ resp' = Settle(afterChat(rev, analysis, reply))
  /\ pc' = "done"
  /\ UNCHANGED <<reqs, tmp, entry, rev, env, body, um, analysis, sd, timer, calls, llmIn, fn, blobIn>>

\* a timer whose callback rejects nothing
TimerFire_silent ==
  /\ timer = "armed"
  /\ timer' = "fired"
  /\ now' = IF now < TimerDelay THEN TimerDelay ELSE now
  /\ UNCHANGED <<reqs, tmp, entry, rev, env, body, pc, um, analysis, sd, resp,
                 calls, llmIn, chatIn, fn, blobIn>>

\* the timer of part_000 fires: the race rejects unless it is settled already
TimerFire ==
  /\ timer = "armed"
  /\ timer' = "fired"
  /\ now' = IF now < TimerDelay THEN TimerDelay ELSE now
  /\ resp' = Settle(topCatch(rev, TimeoutError))
  /\ UNCHANGED <<reqs, tmp, entry, rev, env, body, pc, um, analysis, sd, calls, llmIn,
                 chatIn, fn, blobIn>>

Next ==
  \/ Load
  \/ Invoke
  \/ ClassifyReturn
  \/ ExistsReturn
  \/ DownloadReturn
  \/ StreamError
  \/ ParseHeaders
  \/ ParseRow
  \/ ParseEnd
  \/ ChatReturn
  \/ TimerFire

Spec == Init /\ [][Next]_vars

\* the event loop runs a timer that is due: an armed timer fires; nothing is
\* assumed of the replies of the external services
SpecLive == Init /\ [][Next]_vars /\ WF_vars(TimerFire)

--------------------------------------------------------------------------
(* Functions called directly, on inputs drawn from bounded sets *)

ColNames == {"soh", "sku_id", "item_description", "vendorName"}

ColumnLists == SeqsUpTo(ColNames, MaxCols)

RowPool == RowPoolA \cup RowPoolB

\* contents of the reply to the analysis prompt of part_003, by character
\* the example output of the prompt (lines 136-140)
ReplyPrescribed ==
  <<"H", "e", "r", "e", "'", "s", " ", "w", "h", "a", "t", " ", "I", " ",
    "f", "o", "u", "n", "d", ":", " ", " ", "\n", "-", " ", "D", "a", "t",
    "a", "s", "e", "t", ":", " ", "<", "r", "e", "s", "p", "o", "n", "s",
    "e", ">", "m", "a", "t", "e", "r", "i", "a", "l", "B", "a", "s", "i",
    "c", "D", "a", "t", "a", ".", "c", "s", "v", "<", "/", "r", "e", "s",
    "p", "o", "n", "s", "e", ">", " ", " ", "\n", "-", " ", "C", "o", "l",
    "u", "m", "n", "s", ":", " ", "<", "r", "e", "s", "p", "o", "n", "s",
    "e", ">", "[", "\"", "i", "t", "e", "m", "_", "d", "e", "s", "c", "r",
    "i", "p", "t", "i", "o", "n", "\"", "]", "<", "/", "r", "e", "s", "p",
    "o", "n", "s", "e", ">", " ", " ", "\n", "-", " ", "V", "a", "l", "u",
    "e", ":", " ", "<", "r", "e", "s", "p", "o", "n", "s", "e", ">", "p",
    "u", "m", "p", "<", "/", "r", "e", "s", "p", "o", "n", "s", "e", ">",
    " ", " ", "\n", "D", "o", "e", "s", " ", "t", "h", "i", "s", " ", "h",
    "e", "l", "p", "?">>

\* the three fields without tags
ReplyPlain ==
  <<"D", "a", "t", "a", "s", "e", "t", ":", " ", "m", "a", "t", "e", "r",
    "i", "a", "l", "B", "a", "s", "i", "c", "D", "a", "t", "a", ".", "c",
    "s", "v", "\n", "C", "o", "l", "u", "m", "n", "s", ":", " ", "[", "i",
    "t", "e", "m", "_", "d", "e", "s", "c", "r", "i", "p", "t", "i", "o",
    "n", "]", "\n", "V", "a", "l", "u", "e", ":", " ", "p", "u", "m", "p">>

\* two columns, without brackets
ReplyTwoColumns ==
  <<"D", "a", "t", "a", "s", "e", "t", ":", " ", "w", "a", "r", "e", "h",
    "o", "u", "s", "e", "D", "a", "t", "a", ".", "c", "s", "v", "\n", "C",
    "o", "l", "u", "m", "n", "s", ":", " ", "s", "o", "h", ",", " ", "s",
    "k", "u", "_", "i", "d", "\n", "V", "a", "l", "u", "e", ":", " ", "1",
    "0", "2", "7", "1">>

\* an empty list of columns
ReplyNoColumns ==
  <<"D", "a", "t", "a", "s", "e", "t", ":", " ", "w", "a", "r", "e", "h",
    "o", "u", "s", "e", "D", "a", "t", "a", ".", "c", "s", "v", " ", "C",
    "o", "l", "u", "m", "n", "s", ":", " ", "[", "]", " ", "V", "a", "l",
    "u", "e", ":", " ", "1", "0", "2", "7", "1">>

\* no field at all
ReplyChat ==
  <<"H", "e", "l", "l", "o", "!">>

AnalysisReplies ==
  { [kind |-> "reject", content |-> <<>>],
    [kind |-> "nochoices", content |-> <<>>],
    [kind |-> "content", content |-> <<>>] }
  \cup {[kind |-> "content", content |-> t] :
          t \in {ReplyPrescribed, ReplyPlain, ReplyTwoColumns, ReplyNoColumns,
                 ReplyChat}}

\* a row that holds "pump" in two of its columns
RowPumpTwice ==
  [item_description |-> SPump, vendorName |-> <<"P", "u", "m", "p", "c", "o">>]

InitUnit ==
  /\ reqs = <<>>
  /\ tmp = NoFile
  /\ now = 0
  /\ blobIn = "none"
  /\ env = [key |-> TRUE, conn |-> TRUE]
  /\ body = [has |-> FALSE, um |-> "undefined", text |-> <<>>]
  /\ um = <<>>
  /\ analysis = NoAnalysis
  /\ resp = NoResp
  /\ timer = "none"
  /\ llmIn = NoReply
  /\ chatIn = NoChat
  /\ \/ \* searchDataset(context, filename, columns, value) of part_003a,
        \* queryDataset(context, filename, columns, searchValue) of part_000
        /\ entry = "searchDataset"
        /\ rev \in {"part_003a", "part_000"}
        /\ pc = "search"
        /\ \E columns \in ColumnLists, value \in Values :
             sd = StartSd("warehouseData.csv", columns, value)
        /\ calls = [NoCalls EXCEPT !.exists = 1]
        /\ fn = NoFn
     \/ \* ResponseFormatter.format(results, columns, value, context)
        /\ entry = "format"
        /\ rev = "part_000"
        /\ pc = "call"
        /\ sd = NoSd
        /\ calls = NoCalls
        /\ \E results \in SeqsUpTo(RowPool, MaxRows), columns \in ColumnLists,
              value \in Values :
             fn = [NoFn EXCEPT !.name = "format", !.rows = results,
                               !.columns = columns, !.value = value]
     \/ \* processRow(normalizedRow, validColumns, searchValue, results, context)
        /\ entry = "processRow"
        /\ rev = "part_000"
        /\ pc = "call"
        /\ sd = NoSd
        /\ calls = NoCalls
        /\ \E row \in RowPool \cup {RowPumpTwice}, columns \in ColumnLists, value \in Values :
             fn = [NoFn EXCEPT !.name = "processRow", !.rows = <<row>>,
                               !.columns = columns, !.value = value]
     \/ \* analyzeUserQuery of part_003 from the reply of its call on
        /\ entry = "analyzeReply"
        /\ rev = "part_003a"
        /\ pc = "call"
        /\ sd = NoSd
        /\ calls = [NoCalls EXCEPT !.classify = 1]
        /\ \E reply \in AnalysisReplies :
             fn = [NoFn EXCEPT !.name = "analyzeReply", !.reply = reply]

ApplyFormat ==
  /\ entry = "format"
  /\ pc = "call"
  /\ fn' = [fn EXCEPT !.applied = TRUE,
                      !.out = format(fn.rows, fn.columns, fn.value)]
  /\ pc' = "done"
  /\ UNCHANGED <<reqs, tmp, entry, rev, env, body, um, analysis, sd, resp, timer, calls,
                 llmIn, chatIn, now, blobIn>>

ApplyProcessRow ==
  /\ entry = "processRow"
  /\ pc = "call"
  /\ fn' = [fn EXCEPT !.applied = TRUE,
                      !.outRows = processRow(fn.rows[1], fn.columns, fn.value, <<>>)]
  /\ pc' = "done"
  /\ UNCHANGED <<reqs, tmp, entry, rev, env, body, um, analysis, sd, resp, timer, calls,
                 llmIn, chatIn, now, blobIn>>

ApplyAnalyzeReply ==
  /\ entry = "analyzeReply"
  /\ pc = "call"
  /\ fn' = [fn EXCEPT !.applied = TRUE,
                      !.parsed = analyzeUserQuery_003a_reply(fn.reply)]
  /\ pc' = "done"
  /\ UNCHANGED <<reqs, tmp, entry, rev, env, body, um, analysis, sd, resp, timer,
                 calls, llmIn, chatIn, now, blobIn>>

NextUnit ==
  \/ ExistsReturn
  \/ DownloadReturn
  \/ StreamError
  \/ ParseHeaders
  \/ ParseRow
  \/ ParseEnd
  \/ ApplyFormat
  \/ ApplyProcessRow
  \/ ApplyAnalyzeReply

SpecUnit == InitUnit /\ [][NextUnit]_vars

--------------------------------------------------------------------------
(* Two requests in one process: the handler is called for the second while
   the first is suspended at an await *)

Slots == {1, 2}

PairRevs == {"part_000", "part_003b"}

\* req.body of the two requests
PairBodies ==
  { [has |-> FALSE, um |-> "undefined", text |-> <<>>],
    [has |-> TRUE, um |-> "string", text |-> <<"s", "k", "u", " ">> \o S10271],
    [has |-> TRUE, um |-> "string", text |-> PumpQuestion],
    [has |-> TRUE, um |-> "string", text |-> <<"h", "i">>] }

\* the replies of the classification call
PairReplies ==
  { [NoReply EXCEPT !.kind = "reject"],
    [NoReply EXCEPT !.kind = "text"],
    [kind |-> "json", dataset |-> "warehouseData.csv", isArray |-> TRUE,
     columns |-> <<"soh">>, column |-> "", value |-> S027, confidence |-> 9] }

\* the contents the blob can have when a request downloads it
PairDocs ==
  { EmptyDoc,
    [headers |-> HeadersA,
     rows |-> <<[sku_id |-> S10271, item_description |-> SPump, soh |-> <<"5">>]>>],
    [headers |-> HeadersB,
     rows |-> <<[item_description |-> SPUMP, vendorName |-> <<"A", "c", "m", "e">>]>>] }

PairChatReplies ==
  { [kind |-> "reject", content |-> <<>>],
    [kind |-> "content", content |-> <<"Hello! How can I help?">>] }

\* the locals of one invocation, and what the services have replied to it
NewReq(b) ==
  [body |-> b, pc |-> "idle", um |-> <<>>, analysis |-> NoAnalysis, sd |-> NoSd,
   resp |-> NoResp, timer |-> "none", llmIn |-> NoReply, chatIn |-> NoChat,
   blobIn |-> "none", dlIn |-> [got |-> FALSE, ok |-> FALSE, doc |-> EmptyDoc]]

InitPair ==
  /\ entry = "pair"
  /\ rev \in PairRevs
  /\ env \in Envs
  /\ body = [has |-> FALSE, um |-> "undefined", text |-> <<>>]
  /\ pc = "load"
  /\ um = <<>>
  /\ analysis = NoAnalysis
  /\ sd = NoSd
  /\ resp = NoResp
  /\ timer = "none"
  /\ calls = NoCalls
  /\ llmIn = NoReply
  /\ chatIn = NoChat
  /\ fn = NoFn
  /\ blobIn = "none"
  /\ now = 0
  /\ reqs \in [Slots -> {NewReq(b) : b \in PairBodies}]
  /\ tmp = NoFile

\* the first settlement of the request's race, or its context.res
SettleReq(q, r) == IF q.resp.status = 0 THEN r ELSE q.resp

\* request q after a step of its search has produced s
SearchStepReq(q, s) ==
  IF q.sd.promise \in {"none", "pending"} /\ s.promise \in {"resolved", "rejected"}
  THEN [q EXCEPT !.sd = s, !.pc = "done",
                 !.resp = SettleReq(q, afterSearch(rev, q.analysis, s, 1))]
  ELSE [q EXCEPT !.sd = s]

\* the handler is called with request i and runs to its first await
PairInvoke(i) ==
  /\ entry = "pair"
  /\ pc = "idle"
  /\ reqs[i].pc = "idle"
  /\ LET q == reqs[i]
         v == validate(rev, env, q.body)
         t == [q EXCEPT !.um = v.um,
                        !.timer = IF rev = "part_000" THEN "armed" ELSE "none"]
         a == route_003b(v.um)
     IN reqs' = [reqs EXCEPT ![i] =
          IF v.resp.status # 0 THEN [t EXCEPT !.resp = v.resp, !.pc = "done"]
          ELSE IF rev = "part_000" THEN [t EXCEPT !.pc = "classify"]
          ELSE IF a.isValid
          THEN SearchStepReq([t EXCEPT !.analysis = a, !.pc = "search"],
                 searchDataset_003b_start(a.dataset, a.columns[1], a.value))
          ELSE [t EXCEPT !.pc = "chat"]]
  /\ UNCHANGED <<tmp, entry, rev, env, body, pc, um, analysis, sd, resp, timer,
                 calls, llmIn, chatIn, fn, blobIn, now>>

\* the classification call of request i settles
PairClassifyReturn(i) ==
  /\ entry = "pair"
  /\ pc = "idle"
  /\ reqs[i].pc = "classify"
  /\ \E reply \in PairReplies :
       LET q == [reqs[i] EXCEPT !.llmIn = reply]
           a == classify(rev, reply)
       IN reqs' = [reqs EXCEPT ![i] =
            IF ~a.ok
            THEN [q EXCEPT !.resp = SettleReq(q, topCatch(rev, a.err)), !.pc = "done"]
            ELSE IF a.val.isValid
            THEN [q EXCEPT !.analysis = a.val, !.pc = "search",
                           !.sd = StartSd(a.val.dataset, a.val.columns, a.val.value)]
            ELSE [q EXCEPT !.analysis = a.val, !.pc = "chat"]]
  /\ UNCHANGED <<tmp, entry, rev, env, body, pc, um, analysis, sd, resp, timer,
                 calls, llmIn, chatIn, fn, blobIn, now>>

\* blobClient.exists() of request i settles
PairExistsReturn(i) ==
  /\ entry = "pair"
  /\ pc = "idle"
  /\ reqs[i].sd.phase = "exists"
  /\ \E reply \in ExistsReplies :
       reqs' = [reqs EXCEPT ![i] =
         SearchStepReq([reqs[i] EXCEPT !.blobIn = reply],
                       sdExists(rev, reqs[i].sd, reply))]
  /\ UNCHANGED <<tmp, entry, rev, env, body, pc, um, analysis, sd, resp, timer,
                 calls, llmIn, chatIn, fn, blobIn, now>>

\* blobClient.download() of request i settles; part_003b opens its write
\* stream on the staging file
PairDownloadReturn(i) ==
  /\ entry = "pair"
  /\ pc = "idle"
  /\ reqs[i].sd.phase = "download"
  /\ \E ok \in BOOLEAN :
       \E doc \in (IF ok THEN PairDocs ELSE {EmptyDoc}) :
         LET s == sdDownload(rev, reqs[i].sd, ok, doc) IN
         /\ reqs' = [reqs EXCEPT ![i] =
              SearchStepReq([reqs[i] EXCEPT !.dlIn = [got |-> TRUE, ok |-> ok,
                                                      doc |-> doc]], s)]
         /\ tmp' = IF s.phase = "staging" THEN createWriteStream(tmp) ELSE tmp
  /\ UNCHANGED <<entry, rev, env, body, pc, um, analysis, sd, resp, timer,
                 calls, llmIn, chatIn, fn, blobIn, now>>

\* the next event of the streams of request i: the parser of part_000 reads
\* the body; the write stream of part_003b finishes, or its parser has read
\* the staging file
PairStreamStep(i) ==
  /\ entry = "pair"
  /\ pc = "idle"
  /\ reqs[i].sd.phase \in {"headers", "staging", "parse"}
  /\ LET q == reqs[i] IN
     CASE q.sd.phase = "headers" ->
            /\ reqs' = [reqs EXCEPT ![i] = SearchStepReq(q, sdHeaders(rev, q.sd))]
            /\ tmp' = tmp
       [] q.sd.phase = "staging" ->
            /\ reqs' = [reqs EXCEPT ![i] =
                          SearchStepReq(q, searchDataset_003b_finish(q.sd))]
            /\ tmp' = writeBody(tmp, csvText(q.sd.doc))
       [] OTHER ->
            /\ reqs' = [reqs EXCEPT ![i] =
                          SearchStepReq(q, searchDataset_003b_parse(q.sd, tmp))]
            /\ tmp' = tmp
  /\ UNCHANGED <<entry, rev, env, body, pc, um, analysis, sd, resp, timer,
                 calls, llmIn, chatIn, fn, blobIn, now>>

\* the body stream of request i fails before its content has arrived: the
\* uncaught exception ends the process, and with it every request in it;
\* the armed timers are lost and no request takes another step
PairStreamError(i) ==
  /\ entry = "pair"
  /\ pc = "idle"
  /\ rev = "part_000"
  /\ reqs[i].sd.phase = "headers"
  /\ pc' = "exited"
  /\ reqs' = [j \in Slots |->
       [reqs[j] EXCEPT !.timer = IF @ = "armed" THEN "gone" ELSE @,
                       !.sd.phase = IF j = i THEN "stalled" ELSE @]]
  /\ UNCHANGED <<tmp, entry, rev, env, body, um, analysis, sd, resp, timer,
                 calls, llmIn, chatIn, fn, blobIn, now>>

\* the plain chat completion of request i settles
PairChatReturn(i) ==
  /\ entry = "pair"
  /\ pc = "idle"
  /\ reqs[i].pc = "chat"
  /\ \E reply \in PairChatReplies :
       LET q == [reqs[i] EXCEPT !.chatIn = reply] IN
       reqs' = [reqs EXCEPT ![i] =
         [q EXCEPT !.resp = SettleReq(q, afterChat(rev, q.analysis, reply)),
                   !.pc = "done"]]
  /\ UNCHANGED <<tmp, entry, rev, env, body, pc, um, analysis, sd, resp, timer,
                 calls, llmIn, chatIn, fn, blobIn, now>>

\* the timer of request i fires
PairTimerFire(i) ==
  /\ entry = "pair"
  /\ pc = "idle"
  /\ reqs[i].timer = "armed"
  /\ reqs' = [reqs EXCEPT ![i] =
       [reqs[i] EXCEPT !.timer = "fired",
                       !.resp = SettleReq(reqs[i], topCatch(rev, TimeoutError))]]
  /\ UNCHANGED <<tmp, entry, rev, env, body, pc, um, analysis, sd, resp, timer,
                 calls, llmIn, chatIn, fn, blobIn, now>>

NextPair ==
  \/ Load
  \/ \E i \in Slots : PairInvoke(i)
  \/ \E i \in Slots : PairClassifyReturn(i)
  \/ \E i \in Slots : PairExistsReturn(i)
  \/ \E i \in Slots : PairDownloadReturn(i)
  \/ \E i \in Slots : PairStreamStep(i)
  \/ \E i \in Slots : PairStreamError(i)
  \/ \E i \in Slots : PairChatReturn(i)
  \/ \E i \in Slots : PairTimerFire(i)

SpecPair == InitPair /\ [][NextPair]_vars

--------------------------------------------------------------------------
(* Properties *)

\* the matching rule of the specification: some requested column's cell,
\* lowercased, contains the lowercased search value
MatchesRow(row, columns, value) ==
  \E i \in DOMAIN columns :
    includes(toLowerCase(Get(row, columns[i])), toLowerCase(value))

HasMatch(doc, columns, value) ==
  \E i \in DOMAIN doc.rows : MatchesRow(doc.rows[i], columns, value)

NoRequestedColumn(doc, columns) ==
  \A i \in DOMAIN columns : columns[i] \notin Range(doc.headers)

\* the request has been answered by the handler itself
Answered == entry = "handler" /\ resp.status # 0

\* C1: a request without a userMessage (no body, or userMessage missing,
\* null or "") is answered with status 400 in every handler, whatever the
\* configuration.  part_004 answers 500 when the API key is not set.
C1_MissingMessageIs400 ==
  (Answered /\ (~body.has \/ body.um # "string" \/ body.text = <<>>))
    => resp.status = 400

\* C2: in part_000, a valid classification whose dataset holds a matching
\* row is answered 200 with the single-result or multi-result message (here:
\* unless the timer answered first).  The parser fails on the first line.
C2_MatchIsFormatted ==
  (Answered /\ rev = "part_000" /\ analysis.isValid /\ timer # "fired"
     /\ sd.phase = "end" /\ HasMatch(sd.doc, analysis.columns, analysis.value))
    => /\ resp.status = 200
       /\ \E rs \in SeqsUpTo(Range(sd.doc.rows), Len(sd.doc.rows)) :
            rs # <<>> /\ resp.text = resultsResponse(rs, analysis.columns)

\* C3: a classification with confidence below 0.4 (in tenths: below 4)
\* queries no dataset.  part_000 never reads the confidence.
C3_LowConfidenceNoQuery ==
  (entry = "handler" /\ rev = "part_000" /\ llmIn.kind = "json"
     /\ llmIn.confidence < 4)
    => (calls.exists = 0 /\ calls.download = 0)

\* C4: a classification naming a dataset outside the known list causes no
\* blob existence check and no download.  No revision holds such a list.
C4_UnknownDatasetNoBlobAccess ==
  (entry = "handler" /\ rev = "part_000" /\ analysis.isValid
     /\ analysis.dataset \notin KnownDatasets)
    => (calls.exists = 0 /\ calls.download = 0)

\* C5: a row is kept exactly when some requested column's lowercased cell
\* contains the lowercased search value: the rows searchDataset has kept are
\* the matching ones among those read so far, in order, and processRow adds
\* an entry exactly for a matching row.
C5_RowMatching ==
  /\ (entry = "searchDataset" /\ rev = "part_003a")
       => sd.results =
            SelectSeq(SubSeq(sd.doc.rows, 1, sd.row - 1),
                      LAMBDA r : MatchesRow(r, sd.columns, sd.value))
  /\ (entry = "processRow" /\ fn.applied)
       => (Len(fn.outRows) > 0 <=> MatchesRow(fn.rows[1], fn.columns, fn.value))

\* value "027" has matched cell "10271", and "PUMP" has matched "pump"
C5_Witness ==
  /\ entry = "searchDataset" /\ rev = "part_003a" /\ sd.phase = "end"
  /\ \/ /\ sd.value = S027
        /\ \E i \in DOMAIN sd.results : sd.results[i].sku_id = S10271
     \/ /\ sd.value = SPUMP
        /\ \E i \in DOMAIN sd.results : sd.results[i].item_description = Spump

\* C6: when the CSV has a header line and none of the requested columns is
\* in it, the search is rejected once the headers are read, and no row is
\* compared or kept, up to the end of the file.
C6_MissingColumnsRejected ==
  (entry = "searchDataset" /\ sd.phase \in {"rows", "end"}
     /\ sd.doc # EmptyDoc /\ NoRequestedColumn(sd.doc, sd.columns))
    => (sd.promise = "rejected" /\ sd.compared = 0 /\ sd.results = <<>>)

\* a file with data rows was read to its end after the rejection
C6_Witness ==
  /\ entry = "searchDataset" /\ rev = "part_003a" /\ sd.phase = "end"
  /\ sd.columns # <<>> /\ NoRequestedColumn(sd.doc, sd.columns)
  /\ Len(sd.doc.rows) > 0 /\ sd.row > Len(sd.doc.rows)
  /\ sd.promise = "rejected"

\* the list of C7: lines i = 1..n, "<i>. SKU <sku> - <value>", each followed
\* by a line break, then the prompt
RECURSIVE C7_Flatten(_)
C7_Flatten(lines) ==
  IF lines = <<>> THEN <<>>
  ELSE Head(lines) \o <<"\n">> \o C7_Flatten(Tail(lines))

C7_Lines(results, sku(_), val(_)) ==
  LET text == C7_Flatten([i \in 1..Len(results) |->
                 <<ToString(i), ". SKU ">> \o sku(results[i]) \o <<" - ">>
                   \o val(results[i])])
  IN SubSeq(text, 1, Len(text) - 1)
       \o <<"\nPlease specify which item you need details for.">>

C7_Expected(results, columns, value, sku(_), val1(_), valN(_)) ==
  IF Len(results) = 0
  THEN <<"No records found for '">> \o value
         \o <<"'. Would you like to try a different search?">>
  ELSE IF Len(results) = 1
  THEN <<columns[1], ": ">> \o val1(results[1])
  ELSE C7_Lines(results, sku, valN)

\* C7 as stated: the value shown is the row's value in the primary column,
\* and the SKU shown is the row's sku_id.  An empty or absent value is shown
\* as a placeholder instead.
C7_FormatShowsValues ==
  (entry = "format" /\ fn.applied /\ fn.columns # <<>>)
    => fn.out = C7_Expected(fn.rows, fn.columns, fn.value,
                            LAMBDA r : Get(r, "sku_id"),
                            LAMBDA r : Get(r, fn.columns[1]),
                            LAMBDA r : Get(r, fn.columns[1]))

\* C7 amended: as stated, with "N/A" for an empty or absent value of the
\* single result, and "N/A" for an empty or absent SKU and "Unknown" for an
\* empty or absent value in the list.
C7_FormatWithPlaceholders ==
  (entry = "format" /\ fn.applied /\ fn.columns # <<>>)
    => fn.out = C7_Expected(fn.rows, fn.columns, fn.value,
                            LAMBDA r : IF Get(r, "sku_id") = <<>> THEN <<"N/A">>
                                       ELSE r.sku_id,
                            LAMBDA r : IF Get(r, fn.columns[1]) = <<>> THEN <<"N/A">>
                                       ELSE r[fn.columns[1]],
                            LAMBDA r : IF Get(r, fn.columns[1]) = <<>> THEN <<"Unknown">>
                                       ELSE r[fn.columns[1]])

\* two results were formatted, one of them without a value in the primary column
C7_Witness ==
  /\ entry = "format" /\ fn.applied /\ Len(fn.rows) = 2 /\ fn.columns # <<>>
  /\ Get(fn.rows[1], fn.columns[1]) # <<>>
  /\ Get(fn.rows[2], fn.columns[1]) = <<>>

\* C8: with the API key set, when the classification gives no valid result,
\* without the call itself failing, the handler makes the plain chat call and
\* answers 200 with the completion's text.  part_003a answers without any
\* chat call.
C8_InvalidClassificationChats ==
  (Answered /\ pc = "done" /\ rev \in {"part_000", "part_003a"} /\ um # <<>>
     /\ env.key /\ ~analysis.isValid /\ llmIn.kind # "reject")
    => /\ calls.chat = 1
       /\ chatIn.kind = "content" => resp = Resp(200, "message", chatIn.content, <<>>)

\* C9 as stated: with the configuration set, a search that resolves with no
\* row leads to the plain chat completion.
C9_EmptyMatchChats ==
  (Answered /\ env.key /\ env.conn /\ sd.promise = "resolved" /\ sd.results = <<>>)
    => calls.chat >= 1

\* the fixed no-records message of each revision
C9_NoRecords(r, value, dataset) ==
  CASE r = "part_000" ->
         <<"No records found for '">> \o value
           \o <<"'. Would you like to try a different search?">>
    [] r \in {"part_001", "part_002", "part_003a"} ->
         <<"No records found for '">> \o value \o <<"' in ", dataset, ".">>
    [] OTHER ->
         <<"I couldn't find any records for '">> \o value
           \o <<"'. Let me know if I can help with anything else!">>

\* C9 amended: a search that resolves with no row leads to no chat call, and
\* the handler's pipeline answers 200 with the revision's no-records message
\* (in part_000 the timer may have answered before).
C9_EmptyMatchNoRecords ==
  (Answered /\ sd.promise = "resolved" /\ sd.results = <<>>)
    => /\ calls.chat = 0
       /\ \/ resp = Resp(200, "message",
                         C9_NoRecords(rev, analysis.value, analysis.dataset), <<>>)
          \/ rev = "part_000" /\ timer = "fired" /\ resp.status = 500
               /\ resp.details = UsageHint

\* a file with data rows was searched to its end and nothing matched
C9_Witness ==
  /\ Answered /\ rev = "part_002" /\ sd.promise = "resolved" /\ sd.results = <<>>
  /\ Len(sd.doc.rows) > 0 /\ sd.phase = "end" /\ resp.status = 200

\* C10: when the classification call itself fails, analyzeQuery returns an
\* invalid result, the handler goes on to the fallback chat call, and the
\* request does not end with a 500 for that failure.  handleAnalysisError
\* throws instead.
C10_ClassifierFailureHandled ==
  (entry = "handler" /\ rev = "part_000" /\ llmIn.kind = "reject")
    => /\ calls.chat = 1
       /\ ~(resp.status = 500 /\ timer # "fired")

\* the response of the timeout: 500, "Processing failed", the usage hint
TimeoutResponse == Resp(500, "error", <<"Processing failed">>, UsageHint)

\* C11: when the timer fires before the pipeline has produced a result, the
\* response is 500 with error "Processing failed" and the usage hint as
\* details, not the text of the timeout error.
C11_TimeoutAnswersHint ==
  [][(timer = "armed" /\ timer' = "fired" /\ resp.status = 0)
       => resp' = TimeoutResponse]_vars

\* the timer has answered while the classification call was still awaited
C11_Witness ==
  /\ rev = "part_000" /\ timer = "fired" /\ pc = "classify"
  /\ resp = TimeoutResponse /\ resp.details # TimeoutError

\* C12: the timeout has the stated duration of 8 seconds: the timeout
\* response is given only after that long, and a pipeline that is done
\* earlier has given the response.  The delay passed to setTimeout is
\* undefined, so the timer falls due after 1 ms.
C12_TimeoutAfterStatedDuration ==
  (rev = "part_000" /\ resp = TimeoutResponse) => now >= StatedTimeout

\* C13: when blobClient.exists() answers false, the search ends rejected
\* with no download attempted, and the request is answered 500.
C13_MissingBlobIs500 ==
  /\ blobIn = "false"
       => (calls.download = 0 /\ sd.promise = "rejected" /\ sd.phase = "end")
  /\ (entry = "handler" /\ blobIn = "false") => resp.status = 500

\* the class-based handler has answered with the not-found error
C13_Witness ==
  /\ entry = "handler" /\ rev = "part_000" /\ blobIn = "false" /\ pc = "done"
  /\ resp = Resp(500, "error", <<"Processing failed">>,
                 <<"Dataset ", sd.filename, " not found">>)

\* C14: a blob that exists and has no content makes the lookup fail with an
\* empty-file error, and the request is answered 500.  The class-based
\* lookup resolves with the empty list instead.
C14_EmptyBlobIs500 ==
  (entry = "handler" /\ blobIn = "true" /\ sd.phase = "end" /\ sd.doc = EmptyDoc)
    => (sd.promise = "rejected" /\ resp.status = 500)

\* a step of the pipeline of part_000 has failed
Failed ==
  \/ llmIn.kind = "reject"
  \/ sd.promise = "rejected"
  \/ chatIn.kind \in {"reject", "nochoices"}

\* every failure that comes back to the handler is answered 500 with error
\* and details
C15_FailuresAnswered500 ==
  (entry = "handler" /\ rev = "part_000" /\ Failed)
    => (resp.status = 500 /\ resp.key = "error" /\ resp.details # <<>>)

\* once the parser will emit nothing more, the promise of the search is settled
C15_SearchSettles ==
  (entry = "handler" /\ rev = "part_000" /\ sd.phase \in {"end", "stalled"})
    => sd.promise \in {"resolved", "rejected"}

\* no failure ends the process as an uncaught exception
C15_NoneEscapes == (entry = "handler" /\ rev = "part_000") => pc # "exited"

\* C15: every failure inside the pipeline is caught at the top level and
\* answered 500 with error and details, none escapes the handler as an
\* uncaught exception and none leaves the promise of the dataset search
\* unsettled.  An error of the download's body stream does both.
C15_FailuresCaught ==
  C15_FailuresAnswered500 /\ C15_SearchSettles /\ C15_NoneEscapes

\* C16: nothing is retried: within one request there is at most one
\* classification call, one fallback chat call, one blob existence check and
\* one blob download, whatever fails or times out.
C16_NoRetry ==
  entry = "handler"
    => (calls.classify <= 1 /\ calls.chat <= 1 /\ calls.exists <= 1
          /\ calls.download <= 1)

\* the fallback chat call has failed after the timer fired, and a search
\* has failed after its download
C16_Witness ==
  /\ entry = "handler" /\ pc = "done"
  /\ \/ calls.chat = 1 /\ chatIn.kind = "reject" /\ timer = "fired"
     \/ calls.download = 1 /\ sd.promise = "rejected" /\ calls.classify = 1

\* C18: in part_000, when the connection string or the API key is not set,
\* loading the module fails: the handler is never called, no outbound call
\* is made and no response is given.
C18_FailFast ==
  (entry = "handler" /\ rev = "part_000" /\ ~(env.key /\ env.conn))
    => (pc \in {"load", "loadfail"} /\ calls = NoCalls /\ resp = NoResp
          /\ timer = "none")

\* loading has failed with the API key set and the connection string missing
C18_Witness ==
  /\ entry = "handler" /\ rev = "part_000" /\ pc = "loadfail"
  /\ env.key /\ ~env.conn

\* C19: in part_001 the handler tests the list after the CSV has been parsed,
\* so a dataset holding a matching row is not answered "No records found".
\* searchDataset returns the list before the parser has emitted a row.
C19_ResultAfterParsing ==
  (entry = "handler" /\ rev = "part_001" /\ sd.promise = "resolved"
     /\ HasMatch(sd.doc, analysis.columns, analysis.value))
    => resp # Resp(200, "message",
                   <<"No records found for '">> \o analysis.value
                     \o <<"' in ", analysis.dataset, ".">>, <<>>)

\* C20: in the single-column revision part_002, a search that found rows is
\* answered with the sentence of the requested column about the value the
\* first matching row holds in it.  The handler passes the context object
\* where formatResults expects the column.
C20_AnswerUsesRequestedColumn ==
  (Answered /\ rev = "part_002" /\ sd.promise = "resolved"
     /\ Len(sd.results) > 0)
    => resp = Resp(200, "message",
                   formatResults_002(sd.results, analysis.columns[1]), <<>>)

\* the search of request q run on the replies of the services to q alone,
\* the staging file holding what q itself has written
AloneSearch(a, s0, q) ==
  LET s1 == IF s0.phase = "exists" THEN sdExists(rev, s0, q.blobIn) ELSE s0
      s2 == IF s1.phase = "download"
            THEN sdDownload(rev, s1, q.dlIn.ok, q.dlIn.doc) ELSE s1
      s3 == CASE s2.phase = "headers" -> sdHeaders(rev, s2)
              [] s2.phase = "staging" ->
                   searchDataset_003b_parse(searchDataset_003b_finish(s2), csvText(s2.doc))
              [] OTHER -> s2
  IN afterSearch(rev, a, s3, 1)

\* the response of the pipeline to request q when q is the only request
Alone(q) ==
  LET v == validate(rev, env, q.body) IN
  IF v.resp.status # 0 THEN v.resp
  ELSE IF rev = "part_000"
  THEN LET a == classify(rev, q.llmIn) IN
       IF ~a.ok THEN topCatch(rev, a.err)
       ELSE IF a.val.isValid
       THEN AloneSearch(a.val, StartSd(a.val.dataset, a.val.columns, a.val.value), q)
       ELSE afterChat(rev, a.val, q.chatIn)
  ELSE LET a == route_003b(v.um) IN
       IF a.isValid
       THEN AloneSearch(a, searchDataset_003b_start(a.dataset, a.columns[1], a.value), q)
       ELSE afterChat(rev, a, q.chatIn)

\* of two requests interleaved at their awaits, each that is answered is
\* answered what its own message and the services' replies to it determine:
\* the response of its pipeline run alone, or the timeout response when its
\* own timer fired first.  (In part_003b no request reaches the staging file.)
C17_ResponsesIndependent ==
  entry = "pair" =>
    \A i \in Slots :
      reqs[i].resp.status # 0 =>
        \/ reqs[i].resp = Alone(reqs[i])
        \/ reqs[i].timer = "fired" /\ reqs[i].resp = TimeoutResponse

\* a request that was taken up and is left without a response when the
\* process has ended is the one whose own body stream failed
C17_NoneLosesItsAnswer ==
  (entry = "pair" /\ pc = "exited") =>
    \A i \in Slots :
      (reqs[i].pc # "idle" /\ reqs[i].resp.status = 0)
        => reqs[i].sd.phase = "stalled"

\* C17: requests share no mutable state: of two requests interleaved at
\* their awaits, the response of each depends on its own message and on the
\* services' replies to it only, never on the progress of the other.  The
\* uncaught error of one request's body stream ends the process, and the
\* other request, still waiting for a reply, is never answered.
C17_Independent == C17_ResponsesIndependent /\ C17_NoneLosesItsAnswer

\* request 2 was called, classified and answered by the chat completion
\* while request 1, with another message, is suspended at its download
C17_Witness ==
  /\ entry = "pair" /\ rev = "part_000"
  /\ reqs[1].sd.phase = "download" /\ reqs[1].resp.status = 0
  /\ reqs[2].pc = "done" /\ reqs[2].resp.status = 200
  /\ reqs[2].timer = "armed" /\ reqs[2].llmIn.kind = "text"
  /\ reqs[1].body # reqs[2].body

\* the first of the columns whose lowercased cell contains the lowercased term
FirstMatchingColumn(row, columns, value) ==
  LET hits == {i \in DOMAIN columns :
                 includes(toLowerCase(Get(row, columns[i])), toLowerCase(value))}
  IN columns[CHOOSE i \in hits : \A j \in hits : i <= j]

\* C21: processRow appends at most one entry for a row, and the entry names
\* the first matching column.  The return in the forEach callback ends that
\* callback only, so every matching column appends an entry.
C21_OneEntryPerRow ==
  (entry = "processRow" /\ fn.applied) =>
    /\ Len(fn.outRows) <= 1
    /\ Len(fn.outRows) = 1 =>
         fn.outRows[1].matchedColumn =
           Str(FirstMatchingColumn(fn.rows[1], fn.columns, fn.value))

\* C22: the reply the analysis prompt of part_003 prescribes is parsed into
\* dataset materialBasicData.csv, columns [item_description] and value pump.
\* The three expressions expect the field right after the colon, where the
\* prescribed reply has the <response> tag.
C22_PrescribedReplyParsed ==
  (entry = "analyzeReply" /\ fn.applied /\ fn.reply.content = ReplyPrescribed)
    => /\ fn.parsed.dataset = datasetMatch(ReplyPlain)
       /\ fn.parsed.columns = splitColumns(columnsMatch(ReplyPlain))
       /\ fn.parsed.value = valueMatch(ReplyPlain)
       /\ fn.parsed.fallbackNull

\* the classification reply was handed to parseOpenAIResponse
Parsed == entry = "handler" /\ rev = "part_000" /\ llmIn.kind \notin {"none", "reject"}

\* the reply is JSON with a dataset, a value and a columns array that holds
\* a name which is not empty after trimming
FieldsPresent(reply) ==
  /\ reply.kind = "json" /\ reply.dataset # "" /\ reply.value # <<>>
  /\ reply.isArray
  /\ \E i \in DOMAIN reply.columns :
       reply.columns[i] # NonString /\ trimName(reply.columns[i]) # ""

\* C23 as stated: isValid is true exactly when dataset, value and one
\* non-empty trimmed column name are present.
C23_ValidIffFieldsPresent ==
  Parsed => (analysis.isValid <=> FieldsPresent(llmIn))

\* C23: parseOpenAIResponse never throws (the handler goes on to the search
\* or to the chat completion), its result has a fallback string, and isValid
\* is true exactly when dataset, value and a non-empty trimmed column name
\* are present and every entry of the columns array is a string.
C23_ParseNeverThrows ==
  Parsed =>
    /\ calls.exists + calls.chat = 1
    /\ analysis.fallback # <<>>
    /\ analysis.isValid <=>
         (FieldsPresent(llmIn) /\ NonString \notin Range(llmIn.columns))

\* a columns array with a name and a number has been parsed: invalid, with
\* the fallback of the catch, and the handler went on to the chat completion
C23_Witness ==
  /\ Parsed /\ llmIn.columns = <<"soh", NonString>>
  /\ ~analysis.isValid
  /\ analysis.fallback = <<"I'm having trouble processing your request. Please try again.">>
  /\ pc = "chat"

\* C24: in part_003 a message that is not classified (no dataset is looked
\* up) is answered 200 with the fallbackMessage of analyzeUserQuery, and the
\* chat completion of step 4 is never called.  With the API key set,
\* analyzeUserQuery returns nothing: it throws while building its prompt.
C24_UnclassifiedGetsFallback ==
  (Answered /\ rev = "part_003a" /\ um # <<>> /\ calls.exists = 0)
    => /\ calls.chat = 0
       /\ analysis.fallback # <<>>
       /\ resp = Resp(200, "message", analysis.fallback, <<>>)

\* C25: in the racing handler the response, once given by the pipeline or by
\* the timer, is the only one: no later settlement of the other changes it.
C25_FirstSettlementStands ==
  [][(rev = "part_000" /\ entry = "handler" /\ resp.status # 0)
       => resp' = resp]_vars

\* the chat completion has answered after the timer did, and the response
\* is still the timeout's
C25_Witness ==
  /\ rev = "part_000" /\ entry = "handler" /\ timer = "fired" /\ pc = "done"
  /\ chatIn.kind = "content" /\ chatIn.content # <<>>
  /\ resp = TimeoutResponse

\* C26: in the racing handler a request that has been taken up is
\* eventually answered, whether or not the classification, blob and chat
\* calls ever complete, provided its timer eventually fires: the timer that
\* was armed leads to a response, or it was lost with the process (an
\* uncaught error of the body stream, C15) and never fires.
C26_EventuallyAnswered ==
  (rev = "part_000" /\ entry = "handler" /\ timer = "armed")
    ~> (resp.status # 0 \/ timer = "gone")

\* the download has not completed, the timer has fired and the request has
\* the timeout response
C26_Witness ==
  /\ rev = "part_000" /\ entry = "handler" /\ sd.phase = "download"
  /\ sd.promise = "none" /\ pc = "search" /\ timer = "fired"
  /\ resp = TimeoutResponse

\* C27: within a request the existence check is issued only after the
\* classification call has completed with a valid result (a dataset, at
\* least one column, a value), and the download only after the existence
\* check has answered true.
C27_CallsOrdered ==
  entry = "handler" =>
    /\ calls.exists > 0 =>
         /\ llmIn.kind \notin {"none", "reject"}
         /\ analysis.isValid /\ analysis.dataset # ""
         /\ Len(analysis.columns) >= 1 /\ analysis.value # <<>>
    /\ calls.download > 0 => (calls.exists > 0 /\ blobIn = "true")

\* the download of part_000 has been issued: classified, found, in that order
C27_Witness ==
  /\ entry = "handler" /\ rev = "part_000" /\ calls.download = 1
  /\ sd.phase = "download" /\ blobIn = "true" /\ llmIn.kind = "json"
  /\ Len(analysis.columns) >= 1

\* C28: a request takes the dataset path or the fallback path, never both:
\* once the search is started the chat completion is neither called nor
\* awaited, however the search ends; a request on the fallback path, and
\* one whose classification is not valid, has made no blob access.
C28_PathsExclusive ==
  entry = "handler" =>
    /\ calls.exists > 0 => (calls.chat = 0 /\ chatIn = NoChat /\ pc # "chat")
    /\ (calls.chat > 0 \/ pc = "chat") =>
         (calls.exists = 0 /\ calls.download = 0 /\ sd = NoSd)
    /\ (llmIn.kind # "none" /\ ~analysis.isValid) =>
         (calls.exists = 0 /\ calls.download = 0 /\ sd = NoSd)

\* the search of part_002 has found no row and the request is answered,
\* without a chat completion
C28_Witness ==
  /\ entry = "handler" /\ rev = "part_002" /\ pc = "done"
  /\ sd.promise = "resolved" /\ sd.results = <<>> /\ sd.phase = "end"
  /\ resp.status = 200 /\ calls.chat = 0 /\ chatIn = NoChat

\* C29: a request answered with status 400 for a missing userMessage has
\* made no outbound call: no classification, no chat completion, no blob
\* existence check and no download, and nothing has answered it.
C29_RejectedMakesNoCall ==
  (entry = "handler" /\ resp.status = 400) =>
    /\ calls = NoCalls
    /\ llmIn = NoReply /\ chatIn = NoChat /\ blobIn = "none" /\ sd = NoSd

\* part_000 has answered 400 to a body whose userMessage is blank
C29_Witness ==
  /\ entry = "handler" /\ rev = "part_000" /\ pc = "done"
  /\ body.has /\ body.um = "string" /\ body.text # <<>> /\ trim(body.text) = <<>>
  /\ resp = Resp(400, "error", <<"Missing userMessage">>, <<>>)
  /\ calls = NoCalls

====
